---------------------------- MODULE Spec2Model ----------------------------
(***************************************************************************)
(* A model of the Zyzzyva word engine (src/src/libzyzzyva/WordEngine.cpp): *)
(* the registry of lexicons, the imports, the three-phase search, the      *)
(* probability-order limiting of applyPostConditions, the word cache and   *)
(* the attribute getters.                                                  *)
(*                                                                         *)
(* Strings are sequences of one-character strings, so that upper-casing,   *)
(* alphagrams, pattern matching and the fixed-width sort keys are computed *)
(* and not assumed.  WordGraph, SearchSpec::optimize, Auxil and LetterBag  *)
(* are not part of the sources at hand: they are modelled from the         *)
(* specification and marked so in the model map.                           *)
(***************************************************************************)
EXTENDS Integers, Sequences, FiniteSets, TLC

VARIABLES
    lexiconData,   \* WordEngine::lexiconData: lexicon name -> LexiconData
    dawgTouched,   \* history: lexicons whose graph a DAWG import has changed
    op,            \* the last operation called, with its arguments
    ret,           \* what that operation returned
    trace,         \* the phases the last search ran, each with its result
    fault,         \* a null dereference or an out-of-range index happened
    connections,   \* QSqlDatabase connections that no LexiconData refers to
    pWords,        \* applyPostConditions alone: the candidate list
    pConds,        \* applyPostConditions alone: the condition list
    pOut,          \* applyPostConditions alone: what it returned
    pDone          \* applyPostConditions alone: whether it has been applied

engineVars == <<lexiconData, dawgTouched, op, ret, trace, fault, connections>>
postVars == <<pWords, pConds, pOut, pDone>>
vars == <<lexiconData, dawgTouched, op, ret, trace, fault, connections,
          pWords, pConds, pOut, pDone>>

-----------------------------------------------------------------------------
(* Characters and strings *)

\* The characters of the model in code-point order (QString::operator<).
CharOrder ==
    <<" ", "#", "*", "0", "1", "2", "3", "4", "5", "6", "7", "8", "9", "?",
      "A", "C", "D", "E", "G", "I", "N", "O", "R", "S", "T", "[", "a", "c", "s",
      "t">>

CharSet == {CharOrder[i] : i \in 1..Len(CharOrder)}

CharRank == [c \in CharSet |-> CHOOSE i \in 1..Len(CharOrder) : CharOrder[i] = c]

\* QChar::toUpper on the characters of the model.
UpperChar(c) ==
    CASE c = "a" -> "A"
      [] c = "c" -> "C"
      [] c = "s" -> "S"
      [] c = "t" -> "T"
      [] OTHER -> c

\* QChar::toLower on the characters of the model.
LowerChar(c) ==
    CASE c = "A" -> "a"
      [] c = "C" -> "c"
      [] c = "S" -> "s"
      [] c = "T" -> "t"
      [] OTHER -> c

\* QString::toUpper.
ToUpper(s) == [i \in 1..Len(s) |-> UpperChar(s[i])]

\* QString::operator< : lexicographic by code point, a proper prefix first.
RECURSIVE StrLess(_, _)
StrLess(s, t) ==
    IF t = <<>> THEN FALSE
    ELSE IF s = <<>> THEN TRUE
    ELSE IF s[1] # t[1] THEN CharRank[s[1]] < CharRank[t[1]]
    ELSE StrLess(Tail(s), Tail(t))

\* QString::left(n).
Left(s, n) == SubSeq(s, 1, IF n > Len(s) THEN Len(s) ELSE n)

\* QString::right(n).
Right(s, n) == SubSeq(s, IF n > Len(s) THEN 1 ELSE Len(s) - n + 1, Len(s))

Range(s) == {s[i] : i \in 1..Len(s)}

\* The number of occurrences of character c in string s.
RECURSIVE CountChar(_, _)
CountChar(s, c) ==
    IF s = <<>> THEN 0
    ELSE (IF s[1] = c THEN 1 ELSE 0) + CountChar(Tail(s), c)

\* The strings of a set in ascending order (the key order of a QMap).
RECURSIVE SortStrings(_)
SortStrings(S) ==
    IF S = {} THEN <<>>
    ELSE LET m == CHOOSE x \in S : \A y \in S \ {x} : StrLess(x, y)
         IN <<m>> \o SortStrings(S \ {m})

\* Auxil::getAlphagram: the letters of a word in ascending order.
RECURSIVE InsertChar(_, _)
InsertChar(c, s) ==
    IF s = <<>> THEN <<c>>
    ELSE IF CharRank[c] <= CharRank[s[1]] THEN <<c>> \o s
    ELSE <<s[1]>> \o InsertChar(c, Tail(s))

RECURSIVE getAlphagram(_)
getAlphagram(w) ==
    IF w = <<>> THEN <<>>
    ELSE InsertChar(w[1], getAlphagram(Tail(w)))

-----------------------------------------------------------------------------
(* LetterBag *)

\* The tiles of each letter (the distribution string of the letter bag).
LetterFrequency(c) ==
    CASE c = "A" -> 9
      [] c = "C" -> 2
      [] c = "D" -> 4
      [] c = "E" -> 12
      [] c = "G" -> 3
      [] c = "I" -> 9
      [] c = "N" -> 6
      [] c = "O" -> 8
      [] c = "R" -> 6
      [] c = "S" -> 4
      [] c = "T" -> 6
      [] OTHER -> 0

\* The blank tiles of the bag ("_:2").
NumBlanks == 2

RECURSIVE Binomial(_, _)
Binomial(n, k) ==
    IF k < 0 \/ k > n THEN 0
    ELSE IF k = 0 THEN 1
    ELSE (Binomial(n - 1, k - 1) * n) \div k

\* The ways to draw cnt[c] tiles of every letter c of L from the bag.
RECURSIVE DrawProduct(_, _)
DrawProduct(L, cnt) ==
    IF L = {} THEN 1
    ELSE LET c == CHOOSE x \in L : TRUE
         IN Binomial(LetterFrequency(c), cnt[c]) * DrawProduct(L \ {c}, cnt)

RECURSIVE SumOver(_, _)
SumOver(S, f) ==
    IF S = {} THEN 0
    ELSE LET x == CHOOSE y \in S : TRUE
         IN f[x] + SumOver(S \ {x}, f)

\* LetterBag::getNumCombinations: the draws that make the word's letters
\* with no blank, with one blank and with two blanks standing for letters.
getNumCombinations(word) ==
    LET L == Range(word)
        cnt == [c \in L |-> CountChar(word, c)]
        less(c) == [cnt EXCEPT ![c] = @ - 1]
        pairs == {p \in L \X L : /\ CharRank[p[1]] <= CharRank[p[2]]
                                 /\ less(p[1])[p[2]] > 0}
        one == [c \in L |-> Binomial(NumBlanks, 1) * DrawProduct(L, less(c))]
        two == [p \in pairs |->
                   Binomial(NumBlanks, 2)
                   * DrawProduct(L, [less(p[1]) EXCEPT ![p[2]] = @ - 1])]
    IN DrawProduct(L, cnt) + SumOver(L, one) + SumOver(pairs, two)

-----------------------------------------------------------------------------
(* Search conditions *)

\* SearchCondition: type, stringValue, minValue, maxValue, boolValue,
\* negated, legacy.
Cond(type, str, mn, mx, b, neg, leg) ==
    [type |-> type, stringValue |-> str, minValue |-> mn, maxValue |-> mx,
     boolValue |-> b, negated |-> neg, legacy |-> leg]

\* Auxil::stringToSearchSet: the set a Belong To Group condition names.  The
\* string value of such a condition is the one-element sequence <<name>>.
SearchSets ==
    {"SetHookWords", "SetFrontHooks", "SetBackHooks", "SetHighFives",
     "SetTypeOneSevens", "SetTypeOneEights", "SetTypeTwoSevens",
     "SetTypeTwoEights", "SetTypeThreeSevens", "SetTypeThreeEights",
     "SetEightsFromSevenLetterStems"}

stringToSearchSet(str) ==
    IF Len(str) = 1 /\ str[1] \in SearchSets THEN str[1]
    ELSE "UnknownSearchSet"

\* A faulty variant of getConditionPhase: a pattern between two * goes to
\* the database phase even when it holds a character class.
getConditionPhaseOfAnyClass(condition) ==
    CASE condition.type \in {"AnagramMatch", "SubanagramMatch", "ConsistOf"} ->
            "WordGraphPhase"
      [] condition.type \in {"Length", "InWordList", "NumVowels",
                             "IncludeLetters", "ProbabilityOrder",
                             "NumUniqueLetters", "PointValue", "NumAnagrams"} ->
            "DatabasePhase"
      [] condition.type \in {"Prefix", "Suffix", "LimitByProbabilityOrder"} ->
            "PostConditionPhase"
      [] condition.type = "PatternMatch" ->
            IF /\ condition.stringValue # <<>>
               /\ Head(condition.stringValue) = "*"
               /\ condition.stringValue[Len(condition.stringValue)] = "*"
            THEN "DatabasePhase"
            ELSE "WordGraphPhase"
      [] condition.type = "BelongToGroup" ->
            IF stringToSearchSet(condition.stringValue)
                   \in {"SetHookWords", "SetFrontHooks", "SetBackHooks"}
            THEN "DatabasePhase"
            ELSE "PostConditionPhase"
      [] OTHER -> "UnknownPhase"

\* WordEngine::getConditionPhase.
getConditionPhase(condition) ==
    CASE condition.type \in {"AnagramMatch", "SubanagramMatch", "ConsistOf"} ->
            "WordGraphPhase"
      [] condition.type \in {"Length", "InWordList", "NumVowels",
                             "IncludeLetters", "ProbabilityOrder",
                             "NumUniqueLetters", "PointValue", "NumAnagrams"} ->
            "DatabasePhase"
      [] condition.type \in {"Prefix", "Suffix", "LimitByProbabilityOrder"} ->
            "PostConditionPhase"
      [] condition.type = "PatternMatch" ->
            IF /\ condition.stringValue # <<>>
               /\ Head(condition.stringValue) = "*"
               /\ condition.stringValue[Len(condition.stringValue)] = "*"
               /\ "[" \notin Range(condition.stringValue)
            THEN "DatabasePhase"
            ELSE "WordGraphPhase"
      [] condition.type = "BelongToGroup" ->
            IF stringToSearchSet(condition.stringValue)
                   \in {"SetHookWords", "SetFrontHooks", "SetBackHooks"}
            THEN "DatabasePhase"
            ELSE "PostConditionPhase"
      [] OTHER -> "UnknownPhase"

\* The number of conditions of a list that are in a phase.
RECURSIVE PhaseCount(_, _)
PhaseCount(conditions, phase) ==
    IF conditions = <<>> THEN 0
    ELSE (IF getConditionPhase(Head(conditions)) = phase THEN 1 ELSE 0)
         + PhaseCount(Tail(conditions), phase)

-----------------------------------------------------------------------------
(* Lexicon data *)

\* A registry entry: none, a null pointer (what QMap::operator[] inserts for
\* a missing key), or a LexiconData with its WordGraph.
EmptyFunction == [x \in {} |-> 0]

NoData ==
    [reg |-> "absent", graph |-> {}, numAnagramsMap |-> EmptyFunction,
     db |-> "none", dbConnectionName |-> "", wordCache |-> EmptyFunction,
     stems |-> EmptyFunction, stemAlphagrams |-> EmptyFunction,
     definitions |-> EmptyFunction]

\* new LexiconData with a new WordGraph.
NewLexiconData == [NoData EXCEPT !.reg = "present"]

\* The entry QMap::operator[] default-constructs: a null LexiconData*.
NullLexiconData == [NoData EXCEPT !.reg = "null"]

\* QMap::contains on lexiconData.
Contains(ld, lexicon) == ld[lexicon].reg # "absent"

\* The entry holds a LexiconData that can be dereferenced.
Present(ld, lexicon) == ld[lexicon].reg = "present"

\* WordGraph::containsWord.
containsWord(graph, word) == word \in graph

\* WordGraph::addWord.
addWord(graph, word) == graph \cup {word}

\* WordEngine::isAcceptable.
isAcceptable(ld, lexicon, word) ==
    IF ~Contains(ld, lexicon) THEN FALSE
    ELSE containsWord(ld[lexicon].graph, word)

-----------------------------------------------------------------------------
(* Set membership (WordEngine::isSetMember) *)

\* LetterBag::getLetterValue: the point value of a tile.
getLetterValue(c) ==
    CASE c \in {"A", "E", "I", "N", "O", "R", "S", "T"} -> 1
      [] c \in {"D", "G"} -> 2
      [] c = "C" -> 3
      [] OTHER -> 0

\* The letters a Type Two alphagram is made of.
typeTwoChars ==
    <<"A", "A", "A", "D", "E", "E", "E", "E", "G", "I", "I", "I", "L", "N",
      "N", "O", "O", "R", "R", "S", "S", "T", "T", "U">>

\* getNumCombinations("HUNTERS") and getNumCombinations("NOTIFIED").
typeThreeSevenCombos == 430272

typeThreeEightCombos == 5049216

\* The string without its character at 0-based position i.
WithoutChar(s, i) == Left(s, i) \o Right(s, Len(s) - i - 1)

\* QMap::contains on stemAlphagrams, and the set stored under a length.
HasStemAlphagrams(ld, lexicon, length) ==
    length \in DOMAIN ld[lexicon].stemAlphagrams

\* Some alphagram of the set is the word's alphagram less one letter.
OneLetterStem(ld, lexicon, word) ==
    /\ HasStemAlphagrams(ld, lexicon, Len(word) - 1)
    /\ LET agram == getAlphagram(word)
           alphaSet == ld[lexicon].stemAlphagrams[Len(word) - 1]
       IN \E i \in 0..(Len(agram) - 1) : WithoutChar(agram, i) \in alphaSet

\* The inner loop of the Type One eights: the letters of agram that are
\* missing from setAlphagram, counted until either string is used up or
\* more than two are missing.  i and saIndex are 0-based.
RECURSIVE MissingCount(_, _, _, _, _)
MissingCount(agram, setAlphagram, i, saIndex, missing) ==
    IF ~(i < Len(agram) /\ saIndex < Len(setAlphagram)) THEN missing
    ELSE LET hit == agram[i + 1] = setAlphagram[saIndex + 1]
             m == IF hit THEN missing ELSE missing + 1
         IN IF m > 2 THEN m
            ELSE MissingCount(agram, setAlphagram, i + 1,
                              IF hit THEN saIndex + 1 ELSE saIndex, m)

IsTypeOneSevens(ld, lexicon, word) ==
    Len(word) = 7 /\ OneLetterStem(ld, lexicon, word)

\* A faulty variant of IsTypeOneEights: one letter at most may be missing.
IsTypeOneEightsOfOneMissing(ld, lexicon, word) ==
    /\ Len(word) = 8
    /\ HasStemAlphagrams(ld, lexicon, Len(word) - 2)
    /\ \E setAlphagram \in ld[lexicon].stemAlphagrams[Len(word) - 2] :
          MissingCount(getAlphagram(word), setAlphagram, 0, 0, 0) <= 1

IsTypeOneEights(ld, lexicon, word) ==
    /\ Len(word) = 8
    /\ HasStemAlphagrams(ld, lexicon, Len(word) - 2)
    /\ \E setAlphagram \in ld[lexicon].stemAlphagrams[Len(word) - 2] :
          MissingCount(getAlphagram(word), setAlphagram, 0, 0, 0) <= 2

\* The greedy pass over typeTwoChars; wi and ti are 0-based.
RECURSIVE TypeTwoPass(_, _, _)
TypeTwoPass(alphagram, wi, ti) ==
    IF ti >= Len(typeTwoChars) THEN FALSE
    ELSE IF typeTwoChars[ti + 1] = alphagram[wi + 1]
         THEN IF wi + 1 = Len(alphagram) THEN TRUE
              ELSE TypeTwoPass(alphagram, wi + 1, ti + 1)
         ELSE TypeTwoPass(alphagram, wi, ti + 1)

IsTypeTwo(ld, lexicon, word, length) ==
    /\ Len(word) = length
    /\ TypeTwoPass(getAlphagram(word), 0, 0)
    /\ ~(IF length = 7 THEN IsTypeOneSevens(ld, lexicon, word)
         ELSE IsTypeOneEights(ld, lexicon, word))

\* A faulty variant of IsTypeThree that leaves out the two exclusions.
IsTypeThreeNotExclusive(ld, lexicon, word, length) ==
    /\ Len(word) = length
    /\ getNumCombinations(word) >=
          (IF length = 7 THEN typeThreeSevenCombos ELSE typeThreeEightCombos)

IsTypeThree(ld, lexicon, word, length) ==
    /\ Len(word) = length
    /\ getNumCombinations(word) >=
          (IF length = 7 THEN typeThreeSevenCombos ELSE typeThreeEightCombos)
    /\ ~(IF length = 7 THEN IsTypeOneSevens(ld, lexicon, word)
         ELSE IsTypeOneEights(ld, lexicon, word))
    /\ ~IsTypeTwo(ld, lexicon, word, length)

IsHighFive(word) ==
    /\ Len(word) = 5
    /\ \A i \in 1..5 : getLetterValue(word[i]) <= 5
    /\ \E i \in {1, 5} : getLetterValue(word[i]) \in {4, 5}

isSetMember(ld, lexicon, word, ss) ==
    IF ~Contains(ld, lexicon) THEN FALSE
    ELSE CASE ss = "SetHookWords" ->
                 \/ isAcceptable(ld, lexicon, Left(word, Len(word) - 1))
                 \/ isAcceptable(ld, lexicon, Right(word, Len(word) - 1))
           [] ss = "SetFrontHooks" ->
                 isAcceptable(ld, lexicon, Right(word, Len(word) - 1))
           [] ss = "SetBackHooks" ->
                 isAcceptable(ld, lexicon, Left(word, Len(word) - 1))
           [] ss = "SetHighFives" -> IsHighFive(word)
           [] ss = "SetTypeOneSevens" -> IsTypeOneSevens(ld, lexicon, word)
           [] ss = "SetTypeOneEights" -> IsTypeOneEights(ld, lexicon, word)
           [] ss = "SetTypeTwoSevens" -> IsTypeTwo(ld, lexicon, word, 7)
           [] ss = "SetTypeTwoEights" -> IsTypeTwo(ld, lexicon, word, 8)
           [] ss = "SetTypeThreeSevens" -> IsTypeThree(ld, lexicon, word, 7)
           [] ss = "SetTypeThreeEights" -> IsTypeThree(ld, lexicon, word, 8)
           [] ss = "SetEightsFromSevenLetterStems" ->
                 Len(word) = 8 /\ OneLetterStem(ld, lexicon, word)
           [] OTHER -> FALSE

-----------------------------------------------------------------------------
(* Post conditions *)

\* One condition of matchesPostConditions: TRUE when the word passes it.
\* A faulty variant of MatchesOnePostCondition: negated is not looked at.
MatchesOnePostConditionAsIfNotNegated(ld, lexicon, wordUpper, condition) ==
    IF getConditionPhase(condition) # "PostConditionPhase" THEN TRUE
    ELSE CASE condition.type = "Prefix" ->
                 isAcceptable(ld, lexicon, condition.stringValue \o wordUpper)
           [] condition.type = "Suffix" ->
                 isAcceptable(ld, lexicon, wordUpper \o condition.stringValue)
           [] condition.type = "BelongToGroup" ->
                 LET searchSet == stringToSearchSet(condition.stringValue)
                 IN IF searchSet = "UnknownSearchSet" THEN TRUE
                    ELSE isSetMember(ld, lexicon, wordUpper, searchSet)
           [] OTHER -> TRUE

MatchesOnePostCondition(ld, lexicon, wordUpper, condition) ==
    IF getConditionPhase(condition) # "PostConditionPhase" THEN TRUE
    ELSE CASE condition.type = "Prefix" ->
                 ~((~isAcceptable(ld, lexicon,
                                  condition.stringValue \o wordUpper))
                   # condition.negated)
           [] condition.type = "Suffix" ->
                 ~((~isAcceptable(ld, lexicon,
                                  wordUpper \o condition.stringValue))
                   # condition.negated)
           [] condition.type = "BelongToGroup" ->
                 LET searchSet == stringToSearchSet(condition.stringValue)
                 IN IF searchSet = "UnknownSearchSet" THEN TRUE
                    ELSE ~((~isSetMember(ld, lexicon, wordUpper, searchSet))
                           # condition.negated)
           [] OTHER -> TRUE

\* WordEngine::matchesPostConditions.
matchesPostConditions(ld, lexicon, word, conditions) ==
    IF ~Contains(ld, lexicon) THEN FALSE
    ELSE \A i \in 1..Len(conditions) :
            MatchesOnePostCondition(ld, lexicon, ToUpper(word), conditions[i])

\* A faulty variant of FilterSeq: the words that pass, last one first.
RECURSIVE FilterSeqBackwards(_, _)
FilterSeqBackwards(list, keep) ==
    IF list = <<>> THEN <<>>
    ELSE FilterSeqBackwards(Tail(list), keep)
         \o (IF keep[Head(list)] THEN <<Head(list)>> ELSE <<>>)

\* The words of a list that pass a test, in the order of the list.
RECURSIVE FilterSeq(_, _)
FilterSeq(list, keep) ==
    IF list = <<>> THEN <<>>
    ELSE (IF keep[Head(list)] THEN <<Head(list)>> ELSE <<>>)
         \o FilterSeq(Tail(list), keep)

-----------------------------------------------------------------------------
(* Limiting by probability order (WordEngine::applyPostConditions) *)

\* The initial bounds of the limits.
ProbLimitMaxInit == 999999

\* The loop over the Limit By Probability Order conditions.
RECURSIVE MergeProbLimits(_, _)
MergeProbLimits(conditions, acc) ==
    IF conditions = <<>> THEN acc
    ELSE LET c == Head(conditions)
             next ==
               IF c.type # "LimitByProbabilityOrder" THEN acc
               ELSE [probLimitRangeCondition |-> TRUE,
                     legacyProbCondition |-> acc.legacyProbCondition \/ c.legacy,
                     probLimitRangeMin |->
                        IF ~c.boolValue /\ c.minValue > acc.probLimitRangeMin
                        THEN c.minValue ELSE acc.probLimitRangeMin,
                     probLimitRangeMax |->
                        IF ~c.boolValue /\ c.maxValue < acc.probLimitRangeMax
                        THEN c.maxValue ELSE acc.probLimitRangeMax,
                     probLimitRangeMinLax |->
                        IF c.boolValue /\ c.minValue > acc.probLimitRangeMinLax
                        THEN c.minValue ELSE acc.probLimitRangeMinLax,
                     probLimitRangeMaxLax |->
                        IF c.boolValue /\ c.maxValue < acc.probLimitRangeMaxLax
                        THEN c.maxValue ELSE acc.probLimitRangeMaxLax]
         IN MergeProbLimits(Tail(conditions), next)

ProbLimits(conditions) ==
    MergeProbLimits(conditions,
        [probLimitRangeCondition |-> FALSE, legacyProbCondition |-> FALSE,
         probLimitRangeMin |-> 0, probLimitRangeMax |-> ProbLimitMaxInit,
         probLimitRangeMinLax |-> 0, probLimitRangeMaxLax |-> ProbLimitMaxInit])

\* sprintf("%09.0f", x) for a whole number 0 <= x: the decimal digits,
\* zero-padded on the left to nine characters.
RECURSIVE Digits(_)
Digits(n) ==
    IF n < 10 THEN <<CharOrder[4 + n]>>
    ELSE Digits(n \div 10) \o <<CharOrder[4 + (n % 10)]>>

RECURSIVE ZeroPad(_, _)
ZeroPad(s, width) == IF Len(s) >= width THEN s ELSE ZeroPad(<<"0">> \o s, width)

\* The width of the combinations field of a sort key, and 1e9 - 1.
RadixWidth == 9

RadixBase == 999999999

\* A faulty variant of Radix: the alphagram is left out of every key.
RadixWithoutAlphagram(word, legacy) ==
    LET wordUpper == ToUpper(word)
    IN ZeroPad(Digits(RadixBase - getNumCombinations(wordUpper)), RadixWidth)
       \o wordUpper

\* The sort key of a word: the reversed combinations count, the alphagram
\* (unless legacy) and the word, all of the upper-cased word.
Radix(word, legacy) ==
    LET wordUpper == ToUpper(word)
    IN ZeroPad(Digits(RadixBase - getNumCombinations(wordUpper)), RadixWidth)
       \o (IF legacy THEN <<>> ELSE getAlphagram(wordUpper))
       \o wordUpper

\* QMap::insert in list order: a later word replaces an earlier word that
\* has the same key.  radixes[i] is the key of list[i].
ProbMapValue(list, radixes, key) ==
    LET last == CHOOSE i \in 1..Len(list) :
                   /\ radixes[i] = key
                   /\ \A j \in (i + 1)..Len(list) : radixes[j] # key
    IN list[last]

\* A faulty variant of Mid: the slice is one element short at its end.
MidOneShort(list, pos, length) ==
    LET alength == IF length < 0 \/ pos + length > Len(list)
                   THEN Len(list) - pos ELSE length
    IN IF alength <= 1 THEN <<>> ELSE SubSeq(list, pos + 1, pos + alength - 1)

\* QList::mid(pos, length): a negative length, or one that runs past the
\* end, takes the rest of the list from pos.
Mid(list, pos, length) ==
    LET alength == IF length < 0 \/ pos + length > Len(list)
                   THEN Len(list) - pos ELSE length
    IN IF alength <= 0 THEN <<>> ELSE SubSeq(list, pos + 1, pos + alength)

\* The first loop: widen min downwards over keys of equal combinations.
RECURSIVE WidenMin(_, _, _, _)
WidenMin(keys, min, probLimitRangeMin, minCombinations) ==
    IF min > 0 /\ min > probLimitRangeMin
       /\ minCombinations = Left(keys[min], RadixWidth)
    THEN WidenMin(keys, min - 1, probLimitRangeMin, minCombinations)
    ELSE min

\* A faulty variant of WidenMax: the window is not widened at its upper end.
WidenMaxNot(keys, max, probLimitRangeMax, maxCombinations) == max

\* The second loop: widen max upwards over keys of equal combinations.
RECURSIVE WidenMax(_, _, _, _)
WidenMax(keys, max, probLimitRangeMax, maxCombinations) ==
    IF max < Len(keys) - 1 /\ max < probLimitRangeMax
       /\ maxCombinations = Left(keys[max + 2], RadixWidth)
    THEN WidenMax(keys, max + 1, probLimitRangeMax, maxCombinations)
    ELSE max

\* All contiguous slices of a list: what a read past the end of keys may
\* leave behind when the program goes on.
Slices(list) ==
    {<<>>} \cup {SubSeq(list, i, j) : i \in 1..Len(list), j \in 1..Len(list)}

\* The part of applyPostConditions after the per-word conditions: the set
\* of outcomes, each a list with whether an index was out of range.  min
\* and max are 0-based as in the code; keys is 1-based here.
LimitByProbability(returnList, conditions) ==
    LET lim == ProbLimits(conditions)
        size == Len(returnList)
    IN IF ~lim.probLimitRangeCondition
       THEN {[list |-> returnList, fault |-> FALSE]}
       ELSE IF lim.probLimitRangeMin > size \/ lim.probLimitRangeMinLax > size
       THEN {[list |-> <<>>, fault |-> FALSE]}
       ELSE
         LET floor0(x) == IF x < 0 THEN 0 ELSE x
             cap(x) == IF x > size - 1 THEN size - 1 ELSE x
             probLimitRangeMin == floor0(lim.probLimitRangeMin - 1)
             probLimitRangeMinLax == floor0(lim.probLimitRangeMinLax - 1)
             probLimitRangeMax == cap(lim.probLimitRangeMax - 1)
             probLimitRangeMaxLax == cap(lim.probLimitRangeMaxLax - 1)
             min0 == IF probLimitRangeMin > probLimitRangeMinLax
                     THEN probLimitRangeMin ELSE probLimitRangeMinLax
             max0 == IF probLimitRangeMax < probLimitRangeMaxLax
                     THEN probLimitRangeMax ELSE probLimitRangeMaxLax
             legacy == lim.legacyProbCondition
             radixes == [i \in 1..size |-> Radix(returnList[i], legacy)]
             keys == SortStrings(Range(radixes))
             values == [i \in 1..Len(keys) |->
                           ProbMapValue(returnList, radixes, keys[i])]
             inRange(i) == i >= 0 /\ i < Len(keys)
         IN IF ~inRange(min0) \/ ~inRange(max0)
            THEN {[list |-> l, fault |-> TRUE] : l \in Slices(values)}
            ELSE
              LET min == WidenMin(keys, min0, probLimitRangeMin,
                                  Left(keys[min0 + 1], RadixWidth))
                  max == WidenMax(keys, max0, probLimitRangeMax,
                                  Left(keys[max0 + 1], RadixWidth))
              IN {[list |-> Mid(values, min, max - min + 1),
                   fault |-> FALSE]}

\* WordEngine::applyPostConditions: the per-word conditions, then the
\* limits by probability order.
applyPostConditions(ld, lexicon, optimizedSpec, wordList) ==
    LET keep == [w \in Range(wordList) |->
                    matchesPostConditions(ld, lexicon, w, optimizedSpec)]
    IN LimitByProbability(FilterSeq(wordList, keep), optimizedSpec)

-----------------------------------------------------------------------------
(* The files of the environment *)

\* The text files: the lines of a word list, or a file that cannot be
\* opened.  T1 has a lower-case word, a definition, a comment, an indented
\* comment, a blank line and a word twice; T2 repeats a word of T1.
TextFileNames == {"T1", "T2", "TBad"}

TextFileOpens(file) == file # "TBad"

TextFileLines(file) ==
    CASE file = "T1" ->
            << <<"c", "a", "t">>,
               <<" ", "C", "A", "T", "S", " ", " ", "A", " ", "C", "A", "T", " ">>,
               <<"#", "C">>,
               <<" ", "#", "A", "S">>,
               <<" ">>,
               <<"c", "a", "t">> >>
      [] file = "T2" -> << <<"A", "C", "T">>, <<"C", "A", "T">> >>
      [] OTHER -> <<>>

\* The DAWG files: the words of a well-formed file with its checksum; DBad
\* is malformed.
DawgFileNames == {"D1", "DBad"}

DawgFileWords(file) ==
    IF file = "D1" THEN {<<"A", "C", "T">>, <<"C", "A", "T", "S">>} ELSE {}

DawgFileWellFormed(file) == file = "D1"

\* The expected checksum a caller passes: none, the file's, or another.
ExpectedChecksums == {"none", "match", "mismatch"}

\* The stem files: one stem a line; SBad cannot be opened.
StemFileNames == {"S1", "SBad"}

StemFileOpens(file) == file # "SBad"

StemFileLines(file) ==
    IF file = "S1"
    THEN << <<"C", "A", "T">>, <<"A", "T">>, <<"T", "A", "C">> >>
    ELSE <<>>

\* The database files: the rows of table words in rowid order; DBBad cannot
\* be opened.  DB1 is the database of the words of T1, T2 and D1; DB2 is the
\* database of another word list that also holds CAT; DBI is a database of
\* words with letters once, twice and not at all.
DbFileNames == {"DB1", "DB2", "DBBad"}

DbFileOpens(file) == file # "DBBad"

Row(w, len, po, lo, hi, nv, nu, na, pv, fh, bh, isFh, isBh, sym, def) ==
    [word |-> w, length |-> len, probability_order |-> po,
     min_probability_order |-> lo, max_probability_order |-> hi,
     num_vowels |-> nv, num_unique_letters |-> nu, num_anagrams |-> na,
     point_value |-> pv, front_hooks |-> fh, back_hooks |-> bh,
     is_front_hook |-> isFh, is_back_hook |-> isBh, lexicon_symbols |-> sym,
     definition |-> def]

\* A row of a word with the columns that only the word decides.
WordRow(w) == Row(w, Len(w), 0, 0, 0, 0, 0, 0, 0, <<>>, <<>>, FALSE, FALSE, <<>>, <<>>)

DbRows(file) ==
    CASE file = "DB1" ->
            << Row(<<"A", "C", "T">>, 3, 2, 2, 3, 1, 3, 2, 5, <<>>, <<>>,
                   FALSE, FALSE, <<>>, <<"A">>),
               Row(<<"C", "A", "T">>, 3, 3, 2, 3, 1, 3, 2, 5, <<>>, <<"s">>,
                   FALSE, FALSE, <<>>, <<"A", " ", "C", "A", "T">>),
               Row(<<"C", "A", "T", "S">>, 4, 1, 1, 1, 1, 4, 1, 6, <<>>, <<>>,
                   FALSE, TRUE, <<>>, <<"C", "A", "T">>) >>
      [] file = "DB2" ->
            << Row(<<"C", "A", "T">>, 3, 1, 1, 1, 1, 3, 1, 5, <<>>, <<>>,
                   FALSE, FALSE, <<"#">>, <<"T">>) >>
      [] file = "DBI" ->
            << WordRow(<<"A", "T">>), WordRow(<<"C", "A", "T">>),
               WordRow(<<"C", "C">>), WordRow(<<"S", "A", "T", "S">>),
               WordRow(<<"T", "A", "T">>) >>
      [] OTHER -> <<>>

-----------------------------------------------------------------------------
(* Imports *)

\* QString::simplified: white space trimmed at both ends and each inner run
\* of white space made one space.
RECURSIVE CollapseSpaces(_)
CollapseSpaces(s) ==
    IF s = <<>> THEN <<>>
    ELSE LET r == CollapseSpaces(Tail(s))
         IN IF s[1] # " " THEN <<s[1]>> \o r
            ELSE IF r = <<>> \/ r[1] = " " THEN r
            ELSE <<" ">> \o r

Simplified(s) ==
    LET r == CollapseSpaces(s)
    IN IF r # <<>> /\ r[1] = " " THEN Tail(r) ELSE r

\* The 1-based position of the first space of a string, 0 when none.
FirstSpace(s) ==
    IF " " \in Range(s)
    THEN CHOOSE i \in 1..Len(s) :
            s[i] = " " /\ \A j \in 1..(i - 1) : s[j] # " "
    ELSE 0

\* A faulty variant of FirstSection: the whole line is taken as the word.
FirstSectionWholeLine(line) == line

\* line.section(' ', 0, 0) and line.section(' ', 1) of a simplified line.
FirstSection(line) ==
    IF FirstSpace(line) = 0 THEN line ELSE SubSeq(line, 1, FirstSpace(line) - 1)

RestSections(line) ==
    IF FirstSpace(line) = 0 THEN <<>>
    ELSE SubSeq(line, FirstSpace(line) + 1, Len(line))

\* QMap::value with the default 0, and ++map[key].
MapValue(map, key) == IF key \in DOMAIN map THEN map[key] ELSE 0

MapPut(map, key, value) == (key :> value) @@ map

\* WordEngine::addDefinition.  The definitions of the model hold no " / "
\* and no part-of-speech tag, so the multimap of a word is its one
\* definition under the empty tag.
addDefinition(data, word, definition) ==
    IF word = <<>> \/ definition = <<>> \/ data.reg = "absent" THEN data
    ELSE [data EXCEPT !.definitions = MapPut(@, word, <<definition>>)]

\* A faulty variant of ImportLine: the anagram count is incremented for every line,
\* whether or not the graph holds the word already.
ImportLineCountingAll(acc, rawLine, loadDefinitions) ==
    LET line == Simplified(rawLine)
    IN IF line = <<>> \/ line[1] = "#" THEN acc
       ELSE LET word == ToUpper(FirstSection(line))
                alpha == getAlphagram(word)
                counted ==
                  [acc.data EXCEPT !.numAnagramsMap =
                                      MapPut(@, alpha, MapValue(@, alpha) + 1)]
                added == [counted EXCEPT !.graph = addWord(@, word)]
            IN [data |-> IF loadDefinitions
                         THEN addDefinition(added, word, RestSections(line))
                         ELSE added,
                imported |-> acc.imported + 1]

\* One pass of the reading loop of importTextFile.
ImportLine(acc, rawLine, loadDefinitions) ==
    LET line == Simplified(rawLine)
    IN IF line = <<>> \/ line[1] = "#" THEN acc
       ELSE LET word == ToUpper(FirstSection(line))
                alpha == getAlphagram(word)
                counted ==
                  IF ~containsWord(acc.data.graph, word)
                  THEN [acc.data EXCEPT !.numAnagramsMap =
                                           MapPut(@, alpha, MapValue(@, alpha) + 1)]
                  ELSE acc.data
                added == [counted EXCEPT !.graph = addWord(@, word)]
            IN [data |-> IF loadDefinitions
                         THEN addDefinition(added, word, RestSections(line))
                         ELSE added,
                imported |-> acc.imported + 1]

RECURSIVE ImportLines(_, _, _)
ImportLines(acc, lines, loadDefinitions) ==
    IF lines = <<>> THEN acc
    ELSE ImportLines(ImportLine(acc, Head(lines), loadDefinitions),
                     Tail(lines), loadDefinitions)

\* WordEngine::importTextFile: the new registry, the count returned and
\* the error string (the caller gives one).
importTextFile(ld, lexicon, filename, loadDefinitions) ==
    LET registered ==
          IF ~Contains(ld, lexicon)
          THEN [ld EXCEPT ![lexicon] = NewLexiconData] ELSE ld
    IN IF ~TextFileOpens(filename)
       THEN [ld |-> registered, ret |-> 0, err |-> filename]
       ELSE LET done == ImportLines([data |-> registered[lexicon],
                                     imported |-> 0],
                                    TextFileLines(filename), loadDefinitions)
            IN [ld |-> [registered EXCEPT ![lexicon] = done.data],
                ret |-> done.imported, err |-> ""]

\* WordGraph::importDawgFile: the words of the file join the graph, or the
\* import fails and the graph is as before.
DawgImportOk(filename, expectedChecksum) ==
    DawgFileWellFormed(filename) /\ expectedChecksum # "mismatch"

\* WordEngine::importDawgFile: the new registry and the flag returned.
importDawgFile(ld, lexicon, filename, expectedChecksum) ==
    LET registered ==
          IF ~Contains(ld, lexicon)
          THEN [ld EXCEPT ![lexicon] = NewLexiconData] ELSE ld
        ok == DawgImportOk(filename, expectedChecksum)
    IN [ld |-> IF ok
               THEN [registered EXCEPT
                        ![lexicon].graph = @ \cup DawgFileWords(filename)]
               ELSE registered,
        ret |-> ok]

\* A faulty variant of StemLines: the stems of every length are kept.
RECURSIVE StemLinesOfAnyLength(_, _)
StemLinesOfAnyLength(acc, lines) ==
    IF lines = <<>> THEN acc
    ELSE LET line == Simplified(Head(lines))
             word == FirstSection(line)
             length == IF acc.length = 0 THEN Len(word) ELSE acc.length
         IN IF line = <<>> \/ line[1] = "#"
            THEN StemLinesOfAnyLength(acc, Tail(lines))
            ELSE StemLinesOfAnyLength(
                    [words |-> Append(acc.words, word),
                     alphagrams |-> acc.alphagrams \cup {getAlphagram(word)},
                     imported |-> acc.imported + 1,
                     length |-> length],
                    Tail(lines))

\* The reading loop of importStems: words, alphagrams, imported, length.
RECURSIVE StemLines(_, _)
StemLines(acc, lines) ==
    IF lines = <<>> THEN acc
    ELSE LET line == Simplified(Head(lines))
             word == FirstSection(line)
             length == IF acc.length = 0 THEN Len(word) ELSE acc.length
         IN IF line = <<>> \/ line[1] = "#" THEN StemLines(acc, Tail(lines))
            ELSE IF length # Len(word)
            THEN StemLines([acc EXCEPT !.length = length], Tail(lines))
            ELSE StemLines([words |-> Append(acc.words, word),
                            alphagrams |-> acc.alphagrams \cup {getAlphagram(word)},
                            imported |-> acc.imported + 1,
                            length |-> length],
                           Tail(lines))

\* WordEngine::importStems: the new registry and the count returned.
importStems(ld, lexicon, filename) ==
    IF ~Contains(ld, lexicon) THEN [ld |-> ld, ret |-> 0]
    ELSE IF ~StemFileOpens(filename) THEN [ld |-> ld, ret |-> -1]
    ELSE LET done == StemLines([words |-> <<>>, alphagrams |-> {},
                                imported |-> 0, length |-> 0],
                               StemFileLines(filename))
             data == ld[lexicon]
             oldStems == IF done.length \in DOMAIN data.stems
                         THEN data.stems[done.length] ELSE <<>>
             oldAlphagrams == IF done.length \in DOMAIN data.stemAlphagrams
                              THEN data.stemAlphagrams[done.length] ELSE {}
         IN [ld |-> [ld EXCEPT
                        ![lexicon].stems =
                            MapPut(@, done.length, oldStems \o done.words),
                        ![lexicon].stemAlphagrams =
                            MapPut(@, done.length,
                                   oldAlphagrams \cup done.alphagrams)],
             ret |-> done.imported]

-----------------------------------------------------------------------------
(* The word graph search and SearchSpec::optimize *)

\* A pattern with ? for any one letter and * for any run of letters.
RECURSIVE MatchPattern(_, _)
MatchPattern(pattern, word) ==
    IF pattern = <<>> THEN word = <<>>
    ELSE IF pattern[1] = "*"
         THEN \/ MatchPattern(Tail(pattern), word)
              \/ word # <<>> /\ MatchPattern(pattern, Tail(word))
         ELSE /\ word # <<>>
              /\ pattern[1] = "?" \/ UpperChar(pattern[1]) = UpperChar(word[1])
              /\ MatchPattern(Tail(pattern), Tail(word))

\* The letters of a pattern, without its wild cards.
PatternLetters(pattern) ==
    FilterSeq(pattern, [c \in Range(pattern) |-> c \notin {"?", "*"}])

\* The letters of the word that the letters of the pattern do not cover.
Uncovered(pattern, word) ==
    LET L == Range(word)
        over == [c \in L |->
                    IF CountChar(word, c) > CountChar(pattern, c)
                    THEN CountChar(word, c) - CountChar(pattern, c) ELSE 0]
    IN SumOver(L, over)

\* An exact multiset match: every letter of the pattern is used, and each ?
\* stands for one more letter (* for any number more).
MatchAnagram(pattern, word) ==
    LET letters == PatternLetters(pattern)
        extra == Len(word) - Len(letters)
    IN /\ \A c \in Range(letters) : CountChar(word, c) >= CountChar(letters, c)
       /\ IF "*" \in Range(pattern) THEN extra >= CountChar(pattern, "?")
          ELSE extra = CountChar(pattern, "?")

\* The word can be made from the letters of the pattern.
MatchSubanagram(pattern, word) ==
    \/ "*" \in Range(pattern)
    \/ Uncovered(PatternLetters(pattern), word) <= CountChar(pattern, "?")

MatchConsistOf(pattern, word) == Range(word) \subseteq Range(pattern)

GraphConditionHolds(condition, word) ==
    LET hit == CASE condition.type = "PatternMatch" ->
                       MatchPattern(condition.stringValue, word)
                 [] condition.type = "AnagramMatch" ->
                       MatchAnagram(condition.stringValue, word)
                 [] condition.type = "SubanagramMatch" ->
                       MatchSubanagram(condition.stringValue, word)
                 [] condition.type = "ConsistOf" ->
                       MatchConsistOf(condition.stringValue, word)
                 [] OTHER -> TRUE
    IN hit # condition.negated

\* WordGraph::search: the words of the graph that meet every condition of
\* the word graph phase, in ascending order.
GraphSearch(graph, conditions) ==
    SortStrings({w \in graph :
        \A i \in 1..Len(conditions) :
            getConditionPhase(conditions[i]) = "WordGraphPhase"
                => GraphConditionHolds(conditions[i], w)})

\* WordEngine::wordGraphSearch.
wordGraphSearch(ld, lexicon, optimizedSpec) ==
    IF ~Contains(ld, lexicon) THEN <<>>
    ELSE GraphSearch(ld[lexicon].graph, optimizedSpec)

HasType(conditions, type) ==
    \E i \in 1..Len(conditions) : conditions[i].type = type

\* SearchSpec::optimize: the specification as it is, or with the Length
\* condition that a pattern or an anagram without * implies added to bound
\* the word graph search.
Optimizations(conditions) ==
    {conditions} \cup
    {Append(conditions,
            Cond("Length", <<>>, Len(conditions[i].stringValue),
                 Len(conditions[i].stringValue), FALSE, FALSE, FALSE)) :
        i \in {j \in 1..Len(conditions) :
                 /\ conditions[j].type \in {"PatternMatch", "AnagramMatch"}
                 /\ getConditionPhase(conditions[j]) = "WordGraphPhase"
                 /\ ~conditions[j].negated
                 /\ "*" \notin Range(conditions[j].stringValue)
                 /\ "[" \notin Range(conditions[j].stringValue)
                 /\ ~HasType(conditions, "Length")}}

-----------------------------------------------------------------------------
(* The database search (WordEngine::databaseSearch) *)

\* replace("?", "_").replace("*", "%").
LikePattern(str) ==
    [i \in 1..Len(str) |->
        CASE str[i] = "?" -> "_" [] str[i] = "*" -> "%" [] OTHER -> str[i]]

\* SQLite's LIKE: _ is any one character, % any run, letters match without
\* regard to case.
RECURSIVE Like(_, _)
Like(word, pattern) ==
    IF pattern = <<>> THEN word = <<>>
    ELSE IF pattern[1] = "%"
         THEN \/ Like(word, Tail(pattern))
              \/ word # <<>> /\ Like(Tail(word), pattern)
         ELSE /\ word # <<>>
              /\ pattern[1] = "_" \/ UpperChar(pattern[1]) = UpperChar(word[1])
              /\ Like(Tail(word), Tail(pattern))

\* '%c%c...%' with count times the letter c.
RECURSIVE IncludePattern(_, _)
IncludePattern(c, count) ==
    IF count = 0 THEN <<"%">> ELSE <<"%", c>> \o IncludePattern(c, count - 1)

\* column = min, or min <= column <= max.
InRange(value, condition) ==
    IF condition.minValue = condition.maxValue
    THEN value = condition.minValue
    ELSE value >= condition.minValue /\ value <= condition.maxValue

\* QString::split(' ').
RECURSIVE SplitSpaces(_)
SplitSpaces(str) ==
    IF FirstSpace(str) = 0 THEN <<str>>
    ELSE <<SubSeq(str, 1, FirstSpace(str) - 1)>>
         \o SplitSpaces(SubSeq(str, FirstSpace(str) + 1, Len(str)))

\* The fragment of the WHERE clause that a condition of the database phase
\* adds, as a test of a row.
RowMeets(row, condition) ==
    CASE condition.type = "PatternMatch" ->
            Like(row.word, LikePattern(condition.stringValue))
      [] condition.type = "ProbabilityOrder" ->
            IF condition.boolValue
            THEN /\ row.max_probability_order >= condition.minValue
                 /\ row.min_probability_order <= condition.maxValue
            ELSE InRange(row.probability_order, condition)
      [] condition.type = "Length" -> InRange(row.length, condition)
      [] condition.type = "NumVowels" -> InRange(row.num_vowels, condition)
      [] condition.type = "NumUniqueLetters" ->
            InRange(row.num_unique_letters, condition)
      [] condition.type = "PointValue" -> InRange(row.point_value, condition)
      [] condition.type = "NumAnagrams" -> InRange(row.num_anagrams, condition)
      [] condition.type = "IncludeLetters" ->
            \A c \in Range(condition.stringValue) :
                LET count == IF condition.negated THEN 1
                             ELSE CountChar(condition.stringValue, c)
                IN Like(row.word, IncludePattern(c, count)) # condition.negated
      [] condition.type = "BelongToGroup" ->
            LET searchSet == stringToSearchSet(condition.stringValue)
            IN CASE searchSet = "SetFrontHooks" ->
                       row.is_front_hook # condition.negated
                 [] searchSet = "SetBackHooks" ->
                       row.is_back_hook # condition.negated
                 [] searchSet = "SetHookWords" ->
                       IF condition.negated
                       THEN ~row.is_front_hook /\ ~row.is_back_hook
                       ELSE row.is_front_hook \/ row.is_back_hook
                 [] OTHER -> TRUE
      [] condition.type = "InWordList" ->
            (row.word \in Range(SplitSpaces(condition.stringValue)))
                # condition.negated
      [] OTHER -> TRUE

\* The query string is well formed: a fragment follows WHERE, and every
\* condition of the database phase adds a fragment after the AND that
\* precedes it.  A query that is not well formed yields no row.
QueryWellFormed(conditions) ==
    /\ PhaseCount(conditions, "DatabasePhase") > 0
    /\ \A i \in 1..Len(conditions) :
          (/\ getConditionPhase(conditions[i]) = "DatabasePhase"
           /\ conditions[i].type = "IncludeLetters")
              => conditions[i].stringValue # <<>>

\* A faulty variant of UpperToLower: the word is left as the database
\* spells it.
UpperToLowerNot(wordList, wordUpper) == wordUpper

\* upperToLower: the word of the list that was last to upper-case to a key.
UpperToLower(wordList, wordUpper) ==
    LET last == CHOOSE i \in 1..Len(wordList) :
                   /\ ToUpper(wordList[i]) = wordUpper
                   /\ \A j \in (i + 1)..Len(wordList) :
                         ToUpper(wordList[j]) # wordUpper
    IN wordList[last]

\* A sequence mapped element by element.
MapSeq(list, f) == [i \in 1..Len(list) |-> f[list[i]]]

\* WordEngine::databaseSearch.  hasList tells whether a word list is
\* passed; the result is in the order of the rows.
databaseSearch(ld, lexicon, optimizedSpec, hasList, wordList) ==
    IF ~Contains(ld, lexicon) \/ ld[lexicon].db = "none" THEN <<>>
    ELSE IF ~QueryWellFormed(optimizedSpec) THEN <<>>
    ELSE
      LET rows == DbRows(ld[lexicon].db)
          uppers == {ToUpper(wordList[i]) : i \in 1..Len(wordList)}
          selected ==
            [r \in Range(rows) |->
                /\ \A i \in 1..Len(optimizedSpec) :
                      getConditionPhase(optimizedSpec[i]) = "DatabasePhase"
                          => RowMeets(r, optimizedSpec[i])
                /\ hasList => r.word \in uppers]
          words == MapSeq(FilterSeq(rows, selected),
                          [r \in Range(rows) |-> r.word])
      IN [i \in 1..Len(words) |->
             IF hasList /\ words[i] \in uppers
             THEN UpperToLower(wordList, words[i]) ELSE words[i]]

-----------------------------------------------------------------------------
(* The word information cache *)

\* WordInfo(): an invalid WordInfo.
DefaultWordInfo ==
    [word |-> <<>>, probabilityOrder |-> 0, minProbabilityOrder |-> 0,
     maxProbabilityOrder |-> 0, numVowels |-> 0, numUniqueLetters |-> 0,
     numAnagrams |-> 0, pointValue |-> 0, frontHooks |-> <<>>,
     backHooks |-> <<>>, isFrontHook |-> FALSE, isBackHook |-> FALSE,
     lexiconSymbols |-> <<>>, definition |-> <<>>]

\* What a call returns: a list of words, a string, a number, a flag or a
\* WordInfo, each in its own field; err is the file that the message left
\* in *errString names ("Can't open file '...'"), empty when none was left.
NoRet ==
    [list |-> <<>>, str |-> <<>>, num |-> 0, flag |-> FALSE,
     info |-> DefaultWordInfo, err |-> ""]

ListRet(list) == [NoRet EXCEPT !.list = list]

StrRet(str) == [NoRet EXCEPT !.str = str]

NumRet(num) == [NoRet EXCEPT !.num = num]

FlagRet(flag) == [NoRet EXCEPT !.flag = flag]

InfoRet(info) == [NoRet EXCEPT !.info = info]

\* WordInfo::isValid.
isValid(info) == info.word # <<>>

\* The columns of a row copied into a WordInfo for a word.
InfoOfRow(row, word) ==
    [word |-> word, probabilityOrder |-> row.probability_order,
     minProbabilityOrder |-> row.min_probability_order,
     maxProbabilityOrder |-> row.max_probability_order,
     numVowels |-> row.num_vowels,
     numUniqueLetters |-> row.num_unique_letters,
     numAnagrams |-> row.num_anagrams, pointValue |-> row.point_value,
     frontHooks |-> row.front_hooks, backHooks |-> row.back_hooks,
     isFrontHook |-> row.is_front_hook, isBackHook |-> row.is_back_hook,
     lexiconSymbols |-> row.lexicon_symbols, definition |-> row.definition]

\* The rows of a database whose word is exactly the word asked for.
RowsOfWord(file, word) ==
    {r \in Range(DbRows(file)) : r.word = word}

\* A faulty variant of clearCache: the cache of every lexicon is cleared.
clearCacheOfEveryLexicon(ld, lexicon) ==
    IF ~Contains(ld, lexicon) THEN ld
    ELSE [l \in DOMAIN ld |-> [ld[l] EXCEPT !.wordCache = EmptyFunction]]

\* WordEngine::clearCache.
clearCache(ld, lexicon) ==
    IF ~Contains(ld, lexicon) THEN ld
    ELSE [ld EXCEPT ![lexicon].wordCache = EmptyFunction]

\* A faulty variant of addToCache: the words are cached whether or not the database
\* has a row for them.
addToCacheEveryWord(ld, lexicon, words) ==
    IF words = <<>> \/ ~Contains(ld, lexicon) THEN ld
    ELSE LET file == ld[lexicon].db
             old == ld[lexicon].wordCache
         IN [ld EXCEPT ![lexicon].wordCache =
                [w \in DOMAIN old \cup Range(words) |->
                    IF w \in Range(words)
                    THEN IF file # "none" /\ RowsOfWord(file, w) # {}
                         THEN InfoOfRow(CHOOSE r \in RowsOfWord(file, w) : TRUE, w)
                         ELSE [DefaultWordInfo EXCEPT !.word = w]
                    ELSE old[w]]]

\* WordEngine::addToCache.
addToCache(ld, lexicon, words) ==
    IF words = <<>> \/ ~Contains(ld, lexicon) THEN ld
    ELSE IF ld[lexicon].db = "none" THEN ld
    ELSE LET file == ld[lexicon].db
             old == ld[lexicon].wordCache
             found == {w \in Range(words) : RowsOfWord(file, w) # {}}
         IN [ld EXCEPT ![lexicon].wordCache =
                [w \in DOMAIN old \cup found |->
                    IF w \in found
                    THEN InfoOfRow(CHOOSE r \in RowsOfWord(file, w) : TRUE, w)
                    ELSE old[w]]]

\* A faulty variant of getWordInfo: a miss answered by the database drops
\* the entries the cache had.
getWordInfoDroppingCache(ld, lexicon, word) ==
    IF word = <<>> \/ ~Contains(ld, lexicon)
    THEN [info |-> DefaultWordInfo, ld |-> ld]
    ELSE IF word \in DOMAIN ld[lexicon].wordCache
    THEN [info |-> ld[lexicon].wordCache[word], ld |-> ld]
    ELSE IF ld[lexicon].db = "none" \/ RowsOfWord(ld[lexicon].db, word) = {}
    THEN [info |-> DefaultWordInfo, ld |-> ld]
    ELSE LET info == InfoOfRow(CHOOSE r \in RowsOfWord(ld[lexicon].db, word) :
                                  TRUE, word)
         IN [info |-> info,
             ld |-> [ld EXCEPT ![lexicon].wordCache =
                                  MapPut(EmptyFunction, word, info)]]

\* WordEngine::getWordInfo: the WordInfo returned and the new registry.
getWordInfo(ld, lexicon, word) ==
    IF word = <<>> THEN [info |-> DefaultWordInfo, ld |-> ld]
    ELSE IF ~Contains(ld, lexicon) THEN [info |-> DefaultWordInfo, ld |-> ld]
    ELSE IF word \in DOMAIN ld[lexicon].wordCache
    THEN [info |-> ld[lexicon].wordCache[word], ld |-> ld]
    ELSE IF ld[lexicon].db = "none" THEN [info |-> DefaultWordInfo, ld |-> ld]
    ELSE IF RowsOfWord(ld[lexicon].db, word) = {}
    THEN [info |-> DefaultWordInfo, ld |-> ld]
    ELSE LET info == InfoOfRow(CHOOSE r \in RowsOfWord(ld[lexicon].db, word) :
                                  TRUE, word)
         IN [info |-> info,
             ld |-> [ld EXCEPT ![lexicon].wordCache = MapPut(@, word, info)]]

-----------------------------------------------------------------------------
(* WordEngine::search *)

Phases == {"WordGraphPhase", "DatabasePhase", "PostConditionPhase",
           "UnknownPhase"}

\* The map phaseCounts after the counting loop: a key for every phase a
\* condition is in.
CountPhases(conditions) ==
    [p \in {q \in Phases : PhaseCount(conditions, q) > 0} |->
        PhaseCount(conditions, p)]

LengthConditions(conditions) ==
    Cardinality({i \in 1..Len(conditions) : conditions[i].type = "Length"})

\* The map after the step that discounts the Length conditions: operator[]
\* lowers the count and the key stays in the map.
DiscountLength(phaseCounts, lengthConditions) ==
    IF /\ "WordGraphPhase" \in DOMAIN phaseCounts
       /\ lengthConditions # 0
       /\ lengthConditions = MapValue(phaseCounts, "DatabasePhase")
    THEN [phaseCounts EXCEPT !["DatabasePhase"] = @ - 1]
    ELSE phaseCounts

\* A faulty variant of isEmpty: no list counts as empty, so that search
\* never returns early.
isEmptyNever(resultList) == FALSE

\* QStringList::isEmpty, the test of the early returns of search.
isEmpty(resultList) == resultList = <<>>

\* One phase that ran and the list it yielded; given and wordList are the
\* wordList argument of databaseSearch, a pointer to a list or 0.
Ran(phase, list) ==
    [phase |-> phase, list |-> list, given |-> FALSE, wordList |-> <<>>]

RanDatabase(list, hasList, wordList) ==
    [Ran("DatabasePhase", list) EXCEPT
        !.given = hasList, !.wordList = IF hasList THEN wordList ELSE <<>>]

\* The end of search for a final list: the list in capitals if asked for,
\* the cache cleared and filled when the list is not empty.
FinishSearch(ld, lexicon, list, allCaps, phases, faulted) ==
    LET resultList == IF allCaps THEN [i \in 1..Len(list) |-> ToUpper(list[i])]
                      ELSE list
    IN [ret |-> resultList, trace |-> phases, fault |-> faulted,
        ld |-> IF resultList # <<>> /\ ~faulted
               THEN addToCache(clearCache(ld, lexicon), lexicon, resultList)
               ELSE ld]

\* WordEngine::search with the specification as SearchSpec::optimize left
\* it: the outcomes, each the list returned, the phases run in order with
\* their lists, the new registry and whether the call faulted.
search(ld, lexicon, optimizedSpec, allCaps) ==
    IF ~Contains(ld, lexicon)
    THEN {[ret |-> <<>>, trace |-> <<>>, fault |-> FALSE, ld |-> ld]}
    ELSE
      LET phaseCounts == DiscountLength(CountPhases(optimizedSpec),
                                        LengthConditions(optimizedSpec))
          hasGraph == "WordGraphPhase" \in DOMAIN phaseCounts
          hasDb == "DatabasePhase" \in DOMAIN phaseCounts
          hasPost == "PostConditionPhase" \in DOMAIN phaseCounts
          runGraph == hasGraph \/ ~hasDb
          graphList == IF runGraph
                       THEN wordGraphSearch(ld, lexicon, optimizedSpec)
                       ELSE <<>>
          graphTrace == IF runGraph
                        THEN <<Ran("WordGraphPhase", graphList)>> ELSE <<>>
          dbList == IF hasDb
                    THEN databaseSearch(ld, lexicon, optimizedSpec, hasGraph,
                                        graphList)
                    ELSE graphList
          dbTrace == IF hasDb
                     THEN Append(graphTrace,
                                 RanDatabase(dbList, hasGraph, graphList))
                     ELSE graphTrace
      IN IF runGraph /\ isEmpty(graphList)
         THEN {[ret |-> graphList, trace |-> graphTrace, fault |-> FALSE,
                ld |-> ld]}
         ELSE IF hasDb /\ isEmpty(dbList)
         THEN {[ret |-> dbList, trace |-> dbTrace, fault |-> FALSE, ld |-> ld]}
         ELSE IF hasPost
         THEN {FinishSearch(ld, lexicon, o.list, allCaps,
                            Append(dbTrace, Ran("PostConditionPhase", o.list)),
                            o.fault) :
                  o \in applyPostConditions(ld, lexicon, optimizedSpec, dbList)}
         ELSE {FinishSearch(ld, lexicon, dbList, allCaps, dbTrace, FALSE)}

-----------------------------------------------------------------------------
(* The lookups *)

\* WordEngine::lexiconIsLoaded.
lexiconIsLoaded(ld, lexicon) == Contains(ld, lexicon)

\* WordEngine::databaseIsConnected.
databaseIsConnected(ld, lexicon) ==
    Contains(ld, lexicon) /\ ld[lexicon].db # "none"

\* WordEngine::getNumWords.
getNumWords(ld, lexicon) ==
    IF ~Contains(ld, lexicon) THEN 0
    ELSE IF ld[lexicon].db # "none" THEN Len(DbRows(ld[lexicon].db))
    ELSE Cardinality(ld[lexicon].graph)

\* The definitions of a word joined: the values of the multimap with a
\* separator between them.
RECURSIVE JoinDefinitions(_, _)
JoinDefinitions(defs, separator) ==
    IF defs = <<>> THEN <<>>
    ELSE IF Len(defs) = 1 THEN defs[1]
    ELSE IF defs[1] = <<>> THEN JoinDefinitions(Tail(defs), separator)
    ELSE defs[1] \o separator \o JoinDefinitions(Tail(defs), separator)

\* QString::split(" / ") joined again with "\n" between the parts.
RECURSIVE ReplaceLinks(_)
ReplaceLinks(definition) ==
    IF Len(definition) < 3 THEN definition
    ELSE IF SubSeq(definition, 1, 3) = <<" ", "/", " ">>
    THEN <<"\n">> \o ReplaceLinks(SubSeq(definition, 4, Len(definition)))
    ELSE <<definition[1]>> \o ReplaceLinks(Tail(definition))

\* WordEngine::getDefinition: the string returned and the new registry.
getDefinition(ld, lexicon, word, replaceLinks) ==
    IF ~Contains(ld, lexicon) THEN [ret |-> <<>>, ld |-> ld]
    ELSE LET got == getWordInfo(ld, lexicon, word)
         IN IF isValid(got.info)
            THEN [ret |-> IF replaceLinks THEN ReplaceLinks(got.info.definition)
                          ELSE got.info.definition,
                  ld |-> got.ld]
            ELSE IF word \notin DOMAIN ld[lexicon].definitions
            THEN [ret |-> <<>>, ld |-> got.ld]
            ELSE [ret |-> JoinDefinitions(ld[lexicon].definitions[word],
                                          IF replaceLinks THEN <<"\n">>
                                          ELSE <<" ", "/", " ">>),
                  ld |-> got.ld]

\* Auxil::getNumVowels and Auxil::getNumUniqueLetters.
AuxilNumVowels(word) ==
    Cardinality({i \in 1..Len(word) : word[i] \in {"A", "E", "I", "O", "U"}})

AuxilNumUniqueLetters(word) == Cardinality(Range(word))

\* The lookups of one attribute of a word, by the name of the lookup: the
\* value returned and the new registry.  getNumVowels and
\* getNumUniqueLetters do not test that the lexicon is registered.
AttributeNames ==
    {"getNumAnagrams", "getProbabilityOrder", "getMinProbabilityOrder",
     "getMaxProbabilityOrder", "getNumVowels", "getNumUniqueLetters",
     "getPointValue", "getIsFrontHook", "getIsBackHook", "getLexiconSymbols"}

getAttribute(which, ld, lexicon, word) ==
    LET got == getWordInfo(ld, lexicon, word)
        info == got.info
        value ==
          CASE which = "getNumAnagrams" ->
                  NumRet(IF ~Contains(ld, lexicon) THEN 0
                         ELSE IF isValid(info) THEN info.numAnagrams
                         ELSE MapValue(ld[lexicon].numAnagramsMap,
                                       getAlphagram(word)))
            [] which = "getProbabilityOrder" ->
                  NumRet(IF Contains(ld, lexicon) /\ isValid(info)
                         THEN info.probabilityOrder ELSE 0)
            [] which = "getMinProbabilityOrder" ->
                  NumRet(IF Contains(ld, lexicon) /\ isValid(info)
                         THEN info.minProbabilityOrder ELSE 0)
            [] which = "getMaxProbabilityOrder" ->
                  NumRet(IF Contains(ld, lexicon) /\ isValid(info)
                         THEN info.maxProbabilityOrder ELSE 0)
            [] which = "getNumVowels" ->
                  NumRet(IF isValid(info) THEN info.numVowels
                         ELSE AuxilNumVowels(word))
            [] which = "getNumUniqueLetters" ->
                  NumRet(IF isValid(info) THEN info.numUniqueLetters
                         ELSE AuxilNumUniqueLetters(word))
            [] which = "getPointValue" ->
                  NumRet(IF Contains(ld, lexicon) /\ isValid(info)
                         THEN info.pointValue ELSE 0)
            [] which = "getIsFrontHook" ->
                  FlagRet(IF Contains(ld, lexicon) /\ isValid(info)
                         THEN info.isFrontHook ELSE FALSE)
            [] which = "getIsBackHook" ->
                  FlagRet(IF Contains(ld, lexicon) /\ isValid(info)
                         THEN info.isBackHook ELSE FALSE)
            [] which = "getLexiconSymbols" ->
                  StrRet(IF Contains(ld, lexicon) /\ isValid(info)
                         THEN info.lexiconSymbols ELSE <<>>)
    IN [ret |-> value, ld |-> got.ld]

\* The letters of a list of words at one position, in lower case and
\* sorted (qSort).
HookLettersOf(words, front) ==
    LET letter(w) == LowerChar(IF front THEN w[1] ELSE w[Len(w)])
        sorted == SortStrings({<<letter(words[i])>> : i \in 1..Len(words)})
    IN [i \in 1..Len(sorted) |-> sorted[i][1]]

\* WordEngine::getFrontHookLetters and getBackHookLetters: the outcomes,
\* each the string returned, the new registry, whether the call faulted and
\* whether it called search.  The search inside runs with the specification
\* as optimize left it.
getHookLetters(ld, lexicon, word, front) ==
    LET got == getWordInfo(ld, lexicon, word)
        spec == <<Cond("PatternMatch",
                       IF front THEN <<"?">> \o word ELSE word \o <<"?">>,
                       0, 0, FALSE, FALSE, FALSE)>>
    IN IF isValid(got.info)
       THEN {[ret |-> IF front THEN got.info.frontHooks
                      ELSE got.info.backHooks,
              ld |-> got.ld, fault |-> FALSE, searched |-> FALSE]}
       ELSE {[ret |-> HookLettersOf(o.ret, front), ld |-> o.ld,
              fault |-> o.fault, searched |-> TRUE] :
                o \in UNION {search(got.ld, lexicon, optimizedSpec, TRUE) :
                               optimizedSpec \in Optimizations(spec)}}

-----------------------------------------------------------------------------
(* The database connection *)

\* WordEngine::connectToDatabase: the flag returned, the new registry and
\* whether the call faulted.  On an unregistered lexicon operator[] inserts
\* a null entry, and the store through it is a fault.
connectToDatabase(ld, lexicon, filename) ==
    IF ~DbFileOpens(filename) THEN [ret |-> FALSE, ld |-> ld, fault |-> FALSE]
    ELSE IF ~Contains(ld, lexicon)
    THEN [ret |-> FALSE, ld |-> [ld EXCEPT ![lexicon] = NullLexiconData],
          fault |-> TRUE]
    ELSE [ret |-> TRUE,
          ld |-> [ld EXCEPT ![lexicon].db = filename,
                            ![lexicon].dbConnectionName = filename],
          fault |-> FALSE]

\* A connection that QSqlDatabase::addDatabase has added and that
\* QSqlDatabase::removeDatabase has not removed, with the QSqlDatabase
\* object made for it not deleted: the lexicon in its name, and whether it
\* is open.  Connections alike in both are not told apart.
Connection(lexicon, isOpen) == [lexicon |-> lexicon, isOpen |-> isOpen]

\* The connections that a call of connectToDatabase leaves with no
\* LexiconData referring to them: the one it made when the file did not
\* open or the store faulted, and the one that data->db referred to when
\* the store replaced it.
connectToDatabaseLeaves(ld, lexicon, filename) ==
    IF ~DbFileOpens(filename) THEN {Connection(lexicon, FALSE)}
    ELSE IF ~Contains(ld, lexicon) THEN {Connection(lexicon, TRUE)}
    ELSE IF ld[lexicon].db # "none" THEN {Connection(lexicon, TRUE)}
    ELSE {}

\* WordEngine::disconnectFromDatabase.
disconnectFromDatabase(ld, lexicon) ==
    IF ~Contains(ld, lexicon) THEN ld
    ELSE IF ld[lexicon].db = "none" \/ ld[lexicon].dbConnectionName = ""
    THEN ld
    ELSE [ld EXCEPT ![lexicon].db = "none", ![lexicon].dbConnectionName = ""]

-----------------------------------------------------------------------------
(* applyPostConditions on its own: the inputs are drawn in the initial     *)
(* state and the function is applied once.                                 *)

Lexicons == {"L1", "L2"}

\* The longest candidate list, and the largest bound of a Limit By
\* Probability Order condition.
MaxCand == 4

MaxPos == 3

\* The candidate words: three of equal combinations (two of them anagrams
\* of each other, one in lower case) and one of fewer.
PostWords == {<<"A", "T">>, <<"t", "a">>, <<"I", "T">>, <<"A", "S">>}

PostGraph ==
    {<<"A", "T">>, <<"T", "A">>, <<"I", "T">>, <<"A", "S">>,
     <<"I", "T", "S">>, <<"T", "A", "S">>}

PostLexiconData ==
    [l \in Lexicons |->
        IF l = "L1" THEN [NewLexiconData EXCEPT !.graph = PostGraph]
        ELSE NoData]

SeqsUpTo(S, n) == UNION {[1..k -> S] : k \in 0..n}

PostLists ==
    {s \in SeqsUpTo(PostWords, MaxCand) :
        \A i, j \in 1..Len(s) : i # j => s[i] # s[j]}

LimitCond(mn, mx, lax, legacy) ==
    Cond("LimitByProbabilityOrder", <<>>, mn, mx, lax, FALSE, legacy)

PostCondPool ==
    {LimitCond(mn, mx, lax, legacy) :
        mn \in 0..MaxPos, mx \in 0..MaxPos, lax \in BOOLEAN,
        legacy \in BOOLEAN}
    \cup {Cond("Suffix", <<"S">>, 0, 0, FALSE, FALSE, FALSE)}

\* No condition, one, or two (which the merging loop folds into one window
\* of each kind); min <= max in every condition, the invariant of a
\* SearchCondition.
PostCondLists ==
    LET pool == {c \in PostCondPool : c.minValue <= c.maxValue}
    IN {<<>>} \cup {<<c>> : c \in pool} \cup {<<c, d>> : c \in pool, d \in pool}

NoOp == [name |-> "none", lexicon |-> "", known |-> FALSE, word |-> <<>>,
         conditions |-> <<>>, optimized |-> <<>>, allCaps |-> FALSE,
         file |-> "", flag |-> FALSE]

PostInit ==
    /\ lexiconData = PostLexiconData
    /\ dawgTouched = {}
    /\ connections = {}
    /\ op = NoOp
    /\ ret = NoRet
    /\ trace = <<>>
    /\ fault = FALSE
    /\ pWords \in PostLists
    /\ pConds \in PostCondLists
    /\ pOut = [list |-> <<>>, fault |-> FALSE]
    /\ pDone = FALSE

ApplyPost ==
    /\ ~pDone
    /\ \E o \in applyPostConditions(lexiconData, "L1", pConds, pWords) :
          pOut' = o
    /\ pDone' = TRUE
    /\ UNCHANGED <<pWords, pConds>>
    /\ UNCHANGED engineVars

PostNext == ApplyPost

SpecPost == PostInit /\ [][PostNext]_vars

-----------------------------------------------------------------------------
(* Properties of the limiting by probability order (under SpecPost) *)

\* The candidates the limiting works on: the words of pWords that pass the
\* per-word conditions.
PostCands ==
    {w \in Range(pWords) :
        matchesPostConditions(lexiconData, "L1", w, pConds)}

PostLimitConds ==
    {pConds[i] : i \in {j \in 1..Len(pConds) :
                          pConds[j].type = "LimitByProbabilityOrder"}}

PostLegacy == \E c \in PostLimitConds : c.legacy

Combinations(w) == getNumCombinations(ToUpper(w))

\* No group of candidates of equal combinations is partly returned.
TieGroupsWhole ==
    \A x, y \in PostCands :
        Combinations(x) = Combinations(y)
            => (x \in Range(pOut.list) <=> y \in Range(pOut.list))

\* C5 as stated: for every candidate list and every window, strict or lax,
\* the returned list never holds some but not all of the candidates that
\* share one combinatorial count.  (Stated for the runs that index keys in
\* range, so that the violation shown is the one of a strict window.)
C5_TieGroupsNeverCut == (pDone /\ ~pOut.fault) => TieGroupsWhole

\* C5 amended: when every Limit By Probability Order condition is lax and
\* has 1-based bounds (1 <= minValue <= maxValue), the returned list never
\* holds some but not all of the candidates that share one combinatorial
\* count; a strict bound is a hard limit and may cut a group.
C5_LaxWindowsKeepTieGroups ==
    (pDone /\ \A c \in PostLimitConds : c.boolValue /\ c.minValue >= 1)
        => (~pOut.fault /\ TieGroupsWhole)

\* C5 witness: three tied words and a rarer one, a lax window of size one
\* on the second position, and the three tied words returned.
C5_Witness ==
    /\ pDone
    /\ pConds = <<LimitCond(2, 2, TRUE, FALSE)>>
    /\ Len(pWords) = 4
    /\ Range(pOut.list) = {<<"A", "T">>, <<"t", "a">>, <<"I", "T">>}

\* The 1-based position of a candidate in the sorted candidate order.
PostPosition(w) ==
    1 + Cardinality({x \in PostCands :
                        StrLess(Radix(x, PostLegacy), Radix(w, PostLegacy))})

PostStrictConds == {c \in PostLimitConds : ~c.boolValue}

\* C6 as stated: every returned word has a 1-based position p in the sorted
\* candidate order with strictMin <= p <= strictMax, the largest minValue
\* and the smallest maxValue of the strict conditions, also when the merged
\* bounds are contradictory.  (Stated for the runs that index keys in range.)
C6_WithinStrictBounds ==
    (pDone /\ ~pOut.fault) =>
        \A w \in Range(pOut.list) : \A c \in PostStrictConds :
            c.minValue <= PostPosition(w) /\ PostPosition(w) <= c.maxValue

\* The order of two words of equal combinations: by alphagram followed by
\* word as one string (by word alone when legacy); for words of one length
\* that is by alphagram, then by word.
TieOrder(x, y) ==
    LET ux == ToUpper(x)
        uy == ToUpper(y)
    IN IF PostLegacy THEN StrLess(ux, uy)
       ELSE /\ StrLess(getAlphagram(ux) \o ux, getAlphagram(uy) \o uy)
            /\ Len(ux) = Len(uy) =>
                  \/ StrLess(getAlphagram(ux), getAlphagram(uy))
                  \/ getAlphagram(ux) = getAlphagram(uy) /\ StrLess(ux, uy)

\* C7 as stated: with a Limit By Probability Order condition the returned
\* list has the rarer words (smaller combinatorial count) before the words
\* of larger count.
C7_RarerFirst ==
    (pDone /\ PostLimitConds # {} /\ ~pOut.fault) =>
        \A i, j \in 1..Len(pOut.list) :
            i < j => Combinations(pOut.list[i]) <= Combinations(pOut.list[j])

\* C7 amended: with a Limit By Probability Order condition the returned list
\* is in a total order in which words of larger combinatorial count (the
\* more probable words) come first, and words of equal count are ordered by
\* the string alphagram-then-word (for words of one length: by alphagram,
\* then by word), or by the word alone when the legacy flag is set.
C7_MoreProbableFirst ==
    (pDone /\ PostLimitConds # {} /\ ~pOut.fault) =>
        \A i, j \in 1..Len(pOut.list) :
            i < j =>
               \/ Combinations(pOut.list[i]) > Combinations(pOut.list[j])
               \/ /\ Combinations(pOut.list[i]) = Combinations(pOut.list[j])
                  /\ TieOrder(pOut.list[i], pOut.list[j])

\* C7 witness: all four candidates returned, the three tied words in
\* alphagram order before the rarer word.
C7_Witness ==
    /\ pDone
    /\ PostLimitConds # {}
    /\ ~PostLegacy
    /\ pWords = <<<<"A", "S">>, <<"I", "T">>, <<"t", "a">>, <<"A", "T">>>>
    /\ pOut.list = <<<<"A", "T">>, <<"t", "a">>, <<"I", "T">>, <<"A", "S">>>>

-----------------------------------------------------------------------------
(* The engine: one call at a time; a call leaves its name, its arguments and
   what it returned in op, ret and trace until the caller takes them *)

\* The lexicon that the imports fill, the words looked up and the search
\* specifications submitted.
ImportLexicons == {"L1"}

\* The most connections that are left with no LexiconData referring to
\* them.
MaxConnections == 1

LookupWords == {<<"C", "A", "T">>, <<"C", "A", "T", "S">>, <<>>}

Pattern(str) == Cond("PatternMatch", str, 0, 0, FALSE, FALSE, FALSE)

Anagram(str) == Cond("AnagramMatch", str, 0, 0, FALSE, FALSE, FALSE)

LengthCond(n) == Cond("Length", <<>>, n, n, FALSE, FALSE, FALSE)

SuffixCond(str) == Cond("Suffix", str, 0, 0, FALSE, FALSE, FALSE)

ImportedWords ==
    {<<"C", "A", "T">>, <<"A", "C", "T">>, <<"C", "A", "T", "S">>}

SearchSpecs ==
    {<<Pattern(w)>> : w \in ImportedWords}
    \cup {<<Pattern(<<"D", "O", "G">>)>>,
          <<Anagram(<<"T", "A", "C">>)>>,
          <<Anagram(<<"T", "A", "C">>), LengthCond(3)>>,
          <<LengthCond(3)>>,
          <<Pattern(<<"?", "?", "?">>), SuffixCond(<<"S">>)>>,
          <<SuffixCond(<<"S">>)>>,
          <<Pattern(<<"C", "*">>), LimitCond(1, 2, FALSE, FALSE)>>}

\* The most stems a lexicon is given.
MaxStems == 4

StemCount(data) ==
    SumOver(DOMAIN data.stems, [n \in DOMAIN data.stems |-> Len(data.stems[n])])

Call(name, lexicon) ==
    [NoOp EXCEPT !.name = name, !.lexicon = lexicon,
                 !.known = Contains(lexiconData, lexicon)]

Idle == op.name = "none" /\ ~fault

\* What every call leaves: its label, what it returned, the registry.
Done(label, result, phases, ld, faulted) ==
    /\ op' = label
    /\ ret' = result
    /\ trace' = phases
    /\ lexiconData' = ld
    /\ fault' = faulted
    /\ UNCHANGED postVars

Init ==
    /\ lexiconData = [l \in Lexicons |-> NoData]
    /\ dawgTouched = {}
    /\ connections = {}
    /\ op = NoOp
    /\ ret = NoRet
    /\ trace = <<>>
    /\ fault = FALSE
    /\ pWords = <<>>
    /\ pConds = <<>>
    /\ pOut = [list |-> <<>>, fault |-> FALSE]
    /\ pDone = FALSE

ImportTextFile ==
    /\ Idle
    /\ \E lexicon \in ImportLexicons, filename \in TextFileNames,
          loadDefinitions \in BOOLEAN :
          LET r == importTextFile(lexiconData, lexicon, filename,
                                  loadDefinitions)
          IN Done([Call("importTextFile", lexicon) EXCEPT
                      !.file = filename, !.flag = loadDefinitions],
                  [NumRet(r.ret) EXCEPT !.err = r.err], <<>>, r.ld, FALSE)
    /\ UNCHANGED <<dawgTouched, connections>>

ImportDawgFile ==
    /\ Idle
    /\ \E lexicon \in ImportLexicons, filename \in DawgFileNames,
          expectedChecksum \in ExpectedChecksums :
          LET r == importDawgFile(lexiconData, lexicon, filename,
                                  expectedChecksum)
          IN /\ Done([Call("importDawgFile", lexicon) EXCEPT
                         !.file = filename],
                     FlagRet(r.ret), <<>>, r.ld, FALSE)
             /\ dawgTouched' = IF r.ret THEN dawgTouched \cup {lexicon}
                               ELSE dawgTouched
    /\ UNCHANGED connections

ImportStems ==
    /\ Idle
    /\ \E lexicon \in Lexicons, filename \in StemFileNames :
          LET r == importStems(lexiconData, lexicon, filename)
          IN /\ StemCount(r.ld[lexicon]) <= MaxStems
             /\ Done([Call("importStems", lexicon) EXCEPT !.file = filename],
                     NumRet(r.ret), <<>>, r.ld, FALSE)
    /\ UNCHANGED <<dawgTouched, connections>>

ConnectToDatabase ==
    /\ Idle
    /\ \E lexicon \in Lexicons, filename \in DbFileNames :
          LET r == connectToDatabase(lexiconData, lexicon, filename)
          IN Done([Call("connectToDatabase", lexicon) EXCEPT
                      !.file = filename],
                  FlagRet(r.ret), <<>>, r.ld, r.fault)
             /\ connections' = connections \cup
                    connectToDatabaseLeaves(lexiconData, lexicon, filename)
             /\ Cardinality(connections') <= MaxConnections
    /\ UNCHANGED dawgTouched

DisconnectFromDatabase ==
    /\ Idle
    /\ \E lexicon \in Lexicons :
          Done(Call("disconnectFromDatabase", lexicon), FlagRet(TRUE), <<>>,
               disconnectFromDatabase(lexiconData, lexicon), FALSE)
    /\ UNCHANGED <<dawgTouched, connections>>

ClearCache ==
    /\ Idle
    /\ \E lexicon \in Lexicons :
          Done(Call("clearCache", lexicon), NoRet, <<>>,
               clearCache(lexiconData, lexicon), FALSE)
    /\ UNCHANGED <<dawgTouched, connections>>

Search ==
    /\ Idle
    /\ \E lexicon \in Lexicons, spec \in SearchSpecs, allCaps \in BOOLEAN :
          \E optimizedSpec \in Optimizations(spec) :
             \E o \in search(lexiconData, lexicon, optimizedSpec, allCaps) :
                Done([Call("search", lexicon) EXCEPT
                         !.conditions = spec, !.optimized = optimizedSpec,
                         !.allCaps = allCaps],
                     ListRet(o.ret), o.trace, o.ld, o.fault)
    /\ UNCHANGED <<dawgTouched, connections>>

IsAcceptable ==
    /\ Idle
    /\ \E lexicon \in Lexicons, word \in LookupWords :
          Done([Call("isAcceptable", lexicon) EXCEPT !.word = word],
               FlagRet(isAcceptable(lexiconData, lexicon, word)), <<>>,
               lexiconData,
               FALSE)
    /\ UNCHANGED <<dawgTouched, connections>>

LexiconIsLoaded ==
    /\ Idle
    /\ \E lexicon \in Lexicons :
          Done(Call("lexiconIsLoaded", lexicon),
               FlagRet(lexiconIsLoaded(lexiconData, lexicon)), <<>>,
               lexiconData, FALSE)
    /\ UNCHANGED <<dawgTouched, connections>>

DatabaseIsConnected ==
    /\ Idle
    /\ \E lexicon \in Lexicons :
          Done(Call("databaseIsConnected", lexicon),
               FlagRet(databaseIsConnected(lexiconData, lexicon)), <<>>,
               lexiconData, FALSE)
    /\ UNCHANGED <<dawgTouched, connections>>

GetWordInfo ==
    /\ Idle
    /\ \E lexicon \in Lexicons, word \in LookupWords :
          LET r == getWordInfo(lexiconData, lexicon, word)
          IN Done([Call("getWordInfo", lexicon) EXCEPT !.word = word],
                  InfoRet(r.info), <<>>, r.ld, FALSE)
    /\ UNCHANGED <<dawgTouched, connections>>

GetNumWords ==
    /\ Idle
    /\ \E lexicon \in Lexicons :
          Done(Call("getNumWords", lexicon),
               NumRet(getNumWords(lexiconData, lexicon)), <<>>, lexiconData,
               FALSE)
    /\ UNCHANGED <<dawgTouched, connections>>

GetDefinition ==
    /\ Idle
    /\ \E lexicon \in Lexicons, word \in LookupWords, replaceLinks \in BOOLEAN :
          LET r == getDefinition(lexiconData, lexicon, word, replaceLinks)
          IN Done([Call("getDefinition", lexicon) EXCEPT
                      !.word = word, !.flag = replaceLinks],
                  StrRet(r.ret), <<>>, r.ld, FALSE)
    /\ UNCHANGED <<dawgTouched, connections>>

GetAttribute ==
    /\ Idle
    /\ \E which \in AttributeNames, lexicon \in Lexicons, word \in LookupWords :
          LET r == getAttribute(which, lexiconData, lexicon, word)
          IN Done([Call(which, lexicon) EXCEPT !.word = word],
                  r.ret, <<>>, r.ld, FALSE)
    /\ UNCHANGED <<dawgTouched, connections>>

GetFrontHookLetters ==
    /\ Idle
    /\ \E lexicon \in Lexicons, word \in LookupWords :
          \E o \in getHookLetters(lexiconData, lexicon, word, TRUE) :
             Done([Call("getFrontHookLetters", lexicon) EXCEPT
                      !.word = word, !.flag = o.searched],
                  StrRet(o.ret), <<>>, o.ld, o.fault)
    /\ UNCHANGED <<dawgTouched, connections>>

GetBackHookLetters ==
    /\ Idle
    /\ \E lexicon \in Lexicons, word \in LookupWords :
          \E o \in getHookLetters(lexiconData, lexicon, word, FALSE) :
             Done([Call("getBackHookLetters", lexicon) EXCEPT
                      !.word = word, !.flag = o.searched],
                  StrRet(o.ret), <<>>, o.ld, o.fault)
    /\ UNCHANGED <<dawgTouched, connections>>

\* The caller takes the result; the engine is ready for the next call.
Return ==
    /\ op.name # "none"
    /\ ~fault
    /\ op' = NoOp
    /\ ret' = NoRet
    /\ trace' = <<>>
    /\ UNCHANGED <<lexiconData, dawgTouched, fault, connections>>
    /\ UNCHANGED postVars

Next ==
    \/ ImportTextFile
    \/ ImportDawgFile
    \/ ImportStems
    \/ ConnectToDatabase
    \/ DisconnectFromDatabase
    \/ ClearCache
    \/ Search
    \/ IsAcceptable
    \/ LexiconIsLoaded
    \/ DatabaseIsConnected
    \/ GetWordInfo
    \/ GetNumWords
    \/ GetDefinition
    \/ GetAttribute
    \/ GetFrontHookLetters
    \/ GetBackHookLetters
    \/ Return

Spec == Init /\ [][Next]_vars

TypeOK ==
    /\ \A l \in Lexicons : lexiconData[l].reg \in {"absent", "present", "null"}
    /\ fault \in BOOLEAN
    /\ dawgTouched \subseteq Lexicons

-----------------------------------------------------------------------------
(* Properties of search and its cache *)

WordCacheKeys(lexicon) == DOMAIN lexiconData[lexicon].wordCache

SearchReturned == op.name = "search" /\ op.known /\ ~fault

\* The words of a list that have a row in the database a lexicon is
\* connected to; none when no database is connected.
WordsWithRow(lexicon, list) ==
    {w \in Range(list) :
        /\ lexiconData[lexicon].db # "none"
        /\ RowsOfWord(lexiconData[lexicon].db, w) # {}}

\* C1 as stated: after a search returns a non-empty list R, the keys of the
\* lexicon's wordCache are exactly the words of R.
C1_CacheKeysAreResult ==
    (SearchReturned /\ ret.list # <<>>)
        => WordCacheKeys(op.lexicon) = Range(ret.list)

\* C1 amended: after a search returns a non-empty list R, the keys of the
\* lexicon's wordCache are exactly the words of R that have a row in the
\* database the lexicon is connected to (none without a database); every
\* entry cached before the search is gone.
C1_CacheKeysAreResultRows ==
    (SearchReturned /\ ret.list # <<>>)
        => WordCacheKeys(op.lexicon) = WordsWithRow(op.lexicon, ret.list)

\* A search returned two words with a database connected, and one of them
\* has a row and an entry and the other has neither.
C1_Witness ==
    /\ SearchReturned
    /\ Len(ret.list) = 2
    /\ lexiconData[op.lexicon].db # "none"
    /\ Cardinality(WordCacheKeys(op.lexicon)) = 1
    /\ WordCacheKeys(op.lexicon) \subseteq Range(ret.list)

PhaseRank(phase) ==
    CASE phase = "WordGraphPhase" -> 1
      [] phase = "DatabasePhase" -> 2
      [] phase = "PostConditionPhase" -> 3
      [] OTHER -> 4

\* C2: the phases of a search run in the order graph, database, post; no
\* phase runs after a graph or database phase that yielded the empty list,
\* the search then returns the empty list; and a search that returns the
\* empty list leaves the registry, the wordCache in it, as it was.
C2_PhasesInOrderStopOnEmpty ==
    [][(op'.name = "search" /\ ~fault')
          => /\ \A i, j \in DOMAIN trace' :
                   i < j => PhaseRank(trace'[i].phase) < PhaseRank(trace'[j].phase)
             /\ \A i \in DOMAIN trace' :
                   (/\ trace'[i].phase # "PostConditionPhase"
                    /\ trace'[i].list = <<>>)
                       => i = Len(trace') /\ ret'.list = <<>>
             /\ ret'.list = <<>> => lexiconData' = lexiconData]_vars

\* A search ran the graph phase and then the database phase, which yielded
\* the empty list, and returned the empty list with entries in the cache.
C2_Witness ==
    /\ SearchReturned
    /\ Len(trace) = 2
    /\ trace[1].list # <<>>
    /\ trace[2].phase = "DatabasePhase"
    /\ trace[2].list = <<>>
    /\ ret.list = <<>>
    /\ WordCacheKeys(op.lexicon) # {}

\* The conditions are of the word graph phase, but for Length conditions,
\* and one at least is of the word graph phase.
GraphOnlyBesidesLength(conditions) ==
    /\ \A i \in DOMAIN conditions :
          \/ conditions[i].type = "Length"
          \/ getConditionPhase(conditions[i]) = "WordGraphPhase"
    /\ \E i \in DOMAIN conditions :
          getConditionPhase(conditions[i]) = "WordGraphPhase"

\* C3 as stated: a search whose specification has only conditions of the
\* word graph phase besides Length never runs databaseSearch.
C3_GraphOnlyNeverRunsDatabase ==
    (SearchReturned /\ GraphOnlyBesidesLength(op.conditions))
        => \A i \in DOMAIN trace : trace[i].phase # "DatabasePhase"

\* C3 with the specification as the caller wrote it: a search with an
\* AnagramMatch condition and a Length condition of the caller's never runs
\* databaseSearch.
C3_CallerLengthNeverRunsDatabase ==
    (/\ SearchReturned
     /\ op.optimized = op.conditions
     /\ GraphOnlyBesidesLength(op.conditions))
        => \A i \in DOMAIN trace : trace[i].phase # "DatabasePhase"

\* C4 as stated: for a word w imported through importTextFile, a search
\* with the one condition PatternMatch(w) returns the list of w alone,
\* whether or not optimize adds a Length condition and whether or not a
\* database is connected.
C4_ImportedWordIsFound ==
    (/\ SearchReturned
     /\ op.lexicon \notin dawgTouched
     /\ \E w \in lexiconData[op.lexicon].graph : op.conditions = <<Pattern(w)>>)
        => ret.list = <<op.conditions[1].stringValue>>

-----------------------------------------------------------------------------
(* Properties of the imports and of unregistered lexicons *)

\* The words of a graph that have an alphagram.
WordsOfAlphagram(graph, alpha) == {w \in graph : getAlphagram(w) = alpha}

\* C8: in a lexicon filled by importTextFile alone, duplicates within a file
\* and across files included, the count stored for every alphagram is the
\* number of words of the graph that have the alphagram.
C8_AnagramCountsAreExact ==
    \A l \in Lexicons \ dawgTouched :
        LET data == lexiconData[l]
        IN \A a \in DOMAIN data.numAnagramsMap
                    \cup {getAlphagram(w) : w \in data.graph} :
              MapValue(data.numAnagramsMap, a)
                  = Cardinality(WordsOfAlphagram(data.graph, a))

\* Both text files are imported, the word of both counted once: the
\* alphagram ACT has the two words ACT and CAT.
C8_Witness ==
    /\ "L1" \notin dawgTouched
    /\ op.name = "importTextFile"
    /\ Cardinality(lexiconData["L1"].graph) = 3
    /\ MapValue(lexiconData["L1"].numAnagramsMap, <<"A", "C", "T">>) = 2

\* C9 as stated: when importDawgFile fails, the lexicons for which
\* lexiconIsLoaded is true are those of before the call.
C9_FailedDawgImportKeepsRegistry ==
    (op.name = "importDawgFile" /\ ~ret.flag)
        => lexiconIsLoaded(lexiconData, op.lexicon) = op.known

UnregisteredCalls ==
    {"search", "isAcceptable", "getWordInfo", "getNumWords", "getDefinition",
     "importStems", "connectToDatabase", "getFrontHookLetters",
     "getBackHookLetters"} \cup AttributeNames

\* C10 as stated: every operation called with a lexicon name that is not
\* registered returns an empty, default, false or zero result and completes
\* without a fault.
C10_UnregisteredIsHarmless ==
    (op.name \in UnregisteredCalls /\ ~op.known)
        => ~fault /\ ret = NoRet

\* C10 for connectToDatabase alone: the call on an unregistered lexicon
\* completes without a fault.
C10_ConnectUnregisteredNoFault ==
    (op.name = "connectToDatabase" /\ ~op.known) => ~fault

-----------------------------------------------------------------------------
(* Properties of the cache under lookups *)

\* C11 as stated: in every reachable state, getWordInfo returns the WordInfo
\* it would return if clearCache were called first.
C11_CacheIsTransparent ==
    ~fault =>
        \A l \in Lexicons, w \in LookupWords :
            getWordInfo(lexiconData, l, w).info
                = getWordInfo(clearCache(lexiconData, l), l, w).info

\* The lookups of the attributes of a word.
LookupNames ==
    {"getWordInfo", "getDefinition", "getFrontHookLetters",
     "getBackHookLetters"} \cup AttributeNames

\* The entries of every cache are kept over a step, and the only key a step
\* adds is the word looked up, in the lexicon looked up.
CacheOnlyGrowsByLookup ==
    \A l \in Lexicons :
        /\ \A w \in DOMAIN lexiconData[l].wordCache :
              /\ w \in DOMAIN lexiconData'[l].wordCache
              /\ lexiconData'[l].wordCache[w] = lexiconData[l].wordCache[w]
        /\ \A w \in DOMAIN lexiconData'[l].wordCache :
              w \in DOMAIN lexiconData[l].wordCache
                  \/ (l = op'.lexicon /\ w = op'.word)

\* C12 as stated: no attribute lookup runs a search or removes an entry
\* from wordCache; a lookup only reads the cache or adds the looked-up word.
C12_LookupsNeverSearch ==
    [][(op'.name \in LookupNames /\ ~fault')
          => (~op'.flag \/ op'.name = "getDefinition")
             /\ CacheOnlyGrowsByLookup]_vars

\* C12 amended: a lookup that does not call search keeps every entry of
\* wordCache and adds at most the word looked up; getFrontHookLetters and
\* getBackHookLetters call search exactly when the word has no valid
\* WordInfo (no entry in the cache and no row in a connected database), and
\* no other lookup calls search.
C12_OnlyHookLookupsSearch ==
    [][(op'.name \in LookupNames /\ ~fault')
          => LET hooks == op'.name \in {"getFrontHookLetters",
                                        "getBackHookLetters"}
                 searched == hooks /\ op'.flag
             IN /\ searched <=>
                      (hooks /\ ~isValid(getWordInfo(lexiconData, op'.lexicon,
                                                     op'.word).info))
                /\ ~searched => CacheOnlyGrowsByLookup]_vars

\* A lookup of a word found in the database: the cache holds the word
\* looked up next to an entry that was there before.
C12_Witness ==
    /\ op.name = "getPointValue"
    /\ ~fault
    /\ op.word \in WordCacheKeys(op.lexicon)
    /\ Cardinality(WordCacheKeys(op.lexicon)) = 2
    /\ ret.num > 0

-----------------------------------------------------------------------------
(* Properties of the registry *)

\* Over a step no lexicon leaves the registry, and one that enters it is the
\* lexicon of an import.
RegistryStep ==
    \A l \in Lexicons :
        /\ Contains(lexiconData, l) => Contains(lexiconData', l)
        /\ (~Contains(lexiconData, l) /\ Contains(lexiconData', l))
              => /\ op'.name \in {"importTextFile", "importDawgFile"}
                 /\ op'.lexicon = l

\* C13 as stated: a lexicon becomes registered only through importTextFile
\* or importDawgFile and stays registered under every operation; searches,
\* lookups, importStems, clearCache, connectToDatabase and
\* disconnectFromDatabase never add or remove a registry entry.
C13_OnlyImportsRegister == [][RegistryStep]_vars

\* C13 for the calls that complete: but for a call that faults, only the
\* imports add a registry entry and no call removes one.
C13_OnlyImportsRegisterUnlessFault == [][~fault' => RegistryStep]_vars

-----------------------------------------------------------------------------
(* The phases a search runs *)

PhaseRan(phase) == \E i \in DOMAIN trace : trace[i].phase = phase

\* The conditions of the optimized specification that are of the database
\* phase and are not the Length condition that optimize added.
ExplicitDatabaseConditions ==
    {i \in DOMAIN op.optimized :
        /\ getConditionPhase(op.optimized[i]) = "DatabasePhase"
        /\ ~(op.optimized[i].type = "Length" /\ i > Len(op.conditions))}

\* C19 as stated: in a search on a loaded lexicon, wordGraphSearch is run
\* exactly when the optimized specification has a condition of the word
\* graph phase or none of the database phase, and databaseSearch is run
\* only when the specification has a condition of the database phase that
\* is not an implicit Length bound.
C19_DatabaseRunsOnlyOnExplicitConditions ==
    SearchReturned =>
        /\ PhaseRan("WordGraphPhase") <=>
              \/ PhaseCount(op.optimized, "WordGraphPhase") > 0
              \/ PhaseCount(op.optimized, "DatabasePhase") = 0
        /\ PhaseRan("DatabasePhase") => ExplicitDatabaseConditions # {}

\* C19 without the exception for the implicit Length bound: wordGraphSearch
\* is run exactly when the optimized specification has a condition of the
\* word graph phase or none of the database phase, and databaseSearch is
\* run only when the optimized specification has a condition of the
\* database phase, and then whenever the graph phase did not yield the
\* empty list.
C19_DatabaseRunsOnAnyDatabaseCondition ==
    SearchReturned =>
        /\ PhaseRan("WordGraphPhase") <=>
              \/ PhaseCount(op.optimized, "WordGraphPhase") > 0
              \/ PhaseCount(op.optimized, "DatabasePhase") = 0
        /\ PhaseRan("DatabasePhase") <=>
              /\ PhaseCount(op.optimized, "DatabasePhase") > 0
              /\ ~(PhaseRan("WordGraphPhase") /\ trace[1].list = <<>>)

-----------------------------------------------------------------------------
(* importTextFile *)

\* The position of the first character of a line that is not a space, 0
\* when the line is blank.
FirstNonSpace(raw) ==
    IF \A i \in 1..Len(raw) : raw[i] = " " THEN 0
    ELSE CHOOSE i \in 1..Len(raw) :
            raw[i] # " " /\ \A j \in 1..(i - 1) : raw[j] = " "

\* The first token of a line that is not blank: from its first character
\* that is not a space up to the next space or the end of the line.
FirstToken(raw) ==
    LET from == FirstNonSpace(raw)
        to == CHOOSE k \in from..Len(raw) :
                 /\ \A j \in from..k : raw[j] # " "
                 /\ k = Len(raw) \/ raw[k + 1] = " "
    IN SubSeq(raw, from, to)

\* What an importTextFile call must have done when Skipped tells the lines
\* that are skipped.
ImportTextFileDid(Skipped(_)) ==
    LET lexicon == op'.lexicon
        lines == TextFileLines(op'.file)
        kept == {i \in 1..Len(lines) : ~Skipped(lines[i])}
        old == IF Contains(lexiconData, lexicon) THEN lexiconData[lexicon]
               ELSE NewLexiconData
        new == lexiconData'[lexicon]
    IN IF TextFileOpens(op'.file)
       THEN /\ new.graph = old.graph \cup {ToUpper(FirstToken(lines[i])) : i \in kept}
            /\ ret'.num = Cardinality(kept)
            /\ ret'.err = ""
       ELSE /\ ret'.num = 0
            /\ ret'.err = op'.file
            /\ new.graph = old.graph
            /\ new.numAnagramsMap = old.numAnagramsMap
            /\ new.definitions = old.definitions

\* C17 as stated: importTextFile skips the blank lines and the lines that
\* start with '#', adds the upper-cased first token of every other line to
\* the graph and returns the number of those lines; when the file cannot be
\* opened it returns 0, sets the error string and adds no word, anagram
\* count or definition.
C17_SkipsLinesStartingWithHash ==
    [][op'.name = "importTextFile" =>
          ImportTextFileDid(LAMBDA raw : FirstNonSpace(raw) = 0 \/ raw[1] = "#")]_vars

\* C17 amended: importTextFile skips the blank lines and the lines whose
\* first character after leading white space is '#', adds the upper-cased
\* first token of every other line to the graph and returns the number of
\* those lines; when the file cannot be opened it returns 0, sets the error
\* string and adds no word, anagram count or definition.
C17_SkipsLinesWhoseFirstTokenStartsWithHash ==
    [][op'.name = "importTextFile" =>
          ImportTextFileDid(LAMBDA raw :
              FirstNonSpace(raw) = 0 \/ raw[FirstNonSpace(raw)] = "#")]_vars

\* T1 was imported: three lines counted, CATS taken from the line with a
\* definition, no word taken from the indented comment.
C17_Witness ==
    /\ op.name = "importTextFile" /\ op.file = "T1"
    /\ ret.num = 3
    /\ lexiconData[op.lexicon].graph = {<<"C", "A", "T">>, <<"C", "A", "T", "S">>}

-----------------------------------------------------------------------------
(* importStems *)

StemsUnder(data, length) ==
    IF length \in DOMAIN data.stems THEN data.stems[length] ELSE <<>>

StemAlphagramsUnder(data, length) ==
    IF length \in DOMAIN data.stemAlphagrams
    THEN data.stemAlphagrams[length] ELSE {}

\* C18: after every call, in every lexicon, each stem stored under length
\* L has L letters and the stem alphagrams under L are the alphagrams of
\* the stems under L; an importStems call keeps the stems that were stored
\* and puts its own after them; and an importStems call on a loaded lexicon
\* whose file cannot be opened returns -1 and leaves stems and
\* stemAlphagrams as they were.
C18_StemsAndAlphagramsAgree ==
    [][/\ \A l \in Lexicons :
             LET data == lexiconData'[l]
             IN \A length \in DOMAIN data.stems \cup DOMAIN data.stemAlphagrams :
                   /\ \A i \in 1..Len(StemsUnder(data, length)) :
                         Len(StemsUnder(data, length)[i]) = length
                   /\ StemAlphagramsUnder(data, length)
                         = {getAlphagram(w) : w \in Range(StemsUnder(data, length))}
       /\ op'.name = "importStems" =>
             LET old == lexiconData[op'.lexicon]
                 new == lexiconData'[op'.lexicon]
             IN /\ \A length \in DOMAIN old.stems :
                      /\ Len(StemsUnder(new, length)) >= Len(old.stems[length])
                      /\ SubSeq(StemsUnder(new, length), 1, Len(old.stems[length]))
                            = old.stems[length]
                /\ (op'.known /\ ~StemFileOpens(op'.file)) =>
                      /\ ret'.num = -1
                      /\ new.stems = old.stems
                      /\ new.stemAlphagrams = old.stemAlphagrams]_vars

\* The stem file S1 was imported a second time: the stem of two letters
\* was left out again, and the two stems of the first import stand before
\* the two of the second under length 3, with their one alphagram.
C18_Witness ==
    /\ op.name = "importStems" /\ op.known /\ ret.num = 2
    /\ 3 \in DOMAIN lexiconData[op.lexicon].stems
    /\ lexiconData[op.lexicon].stems[3]
          = << <<"C", "A", "T">>, <<"T", "A", "C">>,
               <<"C", "A", "T">>, <<"T", "A", "C">> >>
    /\ lexiconData[op.lexicon].stemAlphagrams[3] = {<<"A", "C", "T">>}

-----------------------------------------------------------------------------
(* applyPostConditions returns a sub-list *)

\* Where a word stands in the candidate list.
CandidateIndex(w) == CHOOSE i \in 1..Len(pWords) : pWords[i] = w

\* C16: every word applyPostConditions returns is a word of the candidate
\* list, returned once; and when no Limit By Probability Order condition is
\* given, the words returned stand in the order they had in the candidate
\* list.
C16_ReturnsSubList ==
    pDone =>
        /\ \A i \in 1..Len(pOut.list) : pOut.list[i] \in Range(pWords)
        /\ \A i, j \in 1..Len(pOut.list) : i # j => pOut.list[i] # pOut.list[j]
        /\ PostLimitConds = {} =>
              \A i, j \in 1..Len(pOut.list) :
                 i < j => CandidateIndex(pOut.list[i]) < CandidateIndex(pOut.list[j])

\* Four candidates under a Suffix condition alone: the second and the
\* fourth fail it, the first and the third are returned in that order.
C16_Witness ==
    /\ pDone
    /\ Len(pConds) = 1 /\ pConds[1].type = "Suffix"
    /\ Len(pWords) = 4
    /\ pOut.list = <<pWords[1], pWords[3]>>

-----------------------------------------------------------------------------
(* The window of the limits by probability order *)

\* The largest of a non-empty set of numbers, and the smallest.
Largest(S) == CHOOSE x \in S : \A y \in S : y <= x

Smallest(S) == CHOOSE x \in S : \A y \in S : x <= y

\* The 1-based window of the conditions: the largest minValue and the
\* smallest maxValue over the strict and the lax conditions together, the
\* upper end no larger than the number of candidates.
WindowLow == Largest({c.minValue : c \in PostLimitConds})

WindowHigh ==
    Smallest({c.maxValue : c \in PostLimitConds} \cup {Cardinality(PostCands)})

\* What orders two words of equal combinations: the alphagram followed by
\* the word, or the word alone when legacy, of the upper-cased word.
TieKey(w, legacy) ==
    (IF legacy THEN <<>> ELSE getAlphagram(ToUpper(w))) \o ToUpper(w)

\* C21: with Limit By Probability Order conditions, the empty list is
\* returned when the candidates left by the per-word conditions are fewer
\* than the minValue of some condition; otherwise every candidate whose
\* 1-based position in the sorted order lies between the largest minValue
\* and the smallest maxValue (no larger than the number of candidates) is
\* returned.  The sorted order has the words of more combinations first
\* and the words of equal combinations in the order of their tie keys.
C21_WindowIsReturned ==
    (pDone /\ PostLimitConds # {}) =>
        LET legacy == PostLegacy
            keyed == {<<w, Combinations(w), TieKey(w, legacy)>> : w \in PostCands}
            low == WindowLow
            high == WindowHigh
        IN IF \E c \in PostLimitConds : Cardinality(keyed) < c.minValue
           THEN pOut.list = <<>>
           ELSE \A q \in keyed :
                   LET before == {r \in keyed :
                                    \/ r[2] > q[2]
                                    \/ r[2] = q[2] /\ StrLess(r[3], q[3])}
                       position == 1 + Cardinality(before)
                   IN (low <= position /\ position <= high)
                          => q[1] \in Range(pOut.list)

\* A strict and a lax condition merged into the window 2..3 over four
\* candidates: the words at positions 2 and 3 are returned, the one at
\* position 4 is not.
C21_Witness ==
    /\ pDone /\ ~pOut.fault
    /\ Len(pConds) = 2
    /\ PostStrictConds # {} /\ PostLimitConds \ PostStrictConds # {}
    /\ Cardinality(PostCands) = 4
    /\ WindowLow = 2 /\ WindowHigh = 3
    /\ \E w \in PostCands : PostPosition(w) = 3 /\ w \in Range(pOut.list)
    /\ \E w \in PostCands : PostPosition(w) = 4 /\ w \notin Range(pOut.list)

\* C28: for a list of distinct candidates and limits by probability order
\* with 0 <= minValue <= maxValue, applyPostConditions indexes keys within
\* its range, also when the per-word conditions remove every candidate.
C28_KeysIndexedInRange ==
    (/\ pDone
     /\ \A i, j \in 1..Len(pWords) : i # j => pWords[i] # pWords[j]
     /\ \A c \in PostLimitConds : 0 <= c.minValue /\ c.minValue <= c.maxValue)
        => ~pOut.fault

-----------------------------------------------------------------------------
(* databaseSearch with an Include Letters condition on its own *)

\* The longest string of an Include Letters condition.
MaxQuery == 3

IncludeLexiconData ==
    [l \in Lexicons |->
        IF l = "L1"
        THEN [NewLexiconData EXCEPT !.db = "DBI", !.dbConnectionName = "DBI"]
        ELSE NoData]

IncludeConds ==
    {<<Cond("IncludeLetters", str, 0, 0, FALSE, negated, FALSE)>> :
        str \in SeqsUpTo({"A", "T", "a"}, MaxQuery), negated \in BOOLEAN}

IncludeInit ==
    /\ lexiconData = IncludeLexiconData
    /\ dawgTouched = {}
    /\ connections = {}
    /\ op = NoOp
    /\ ret = NoRet
    /\ trace = <<>>
    /\ fault = FALSE
    /\ pWords = <<>>
    /\ pConds \in IncludeConds
    /\ pOut = [list |-> <<>>, fault |-> FALSE]
    /\ pDone = FALSE

ApplyInclude ==
    /\ ~pDone
    /\ pOut' = [list |-> databaseSearch(lexiconData, "L1", pConds, FALSE, <<>>),
                fault |-> FALSE]
    /\ pDone' = TRUE
    /\ UNCHANGED <<pWords, pConds>>
    /\ UNCHANGED engineVars

IncludeNext == ApplyInclude

SpecInclude == IncludeInit /\ [][IncludeNext]_vars

IncludeWords == {r.word : r \in Range(DbRows("DBI"))}

\* C14 as stated: a non-negated Include Letters condition of string s
\* selects w exactly when w holds every distinct letter of s at least as
\* many times as s does; a negated one selects w exactly when w holds no
\* letter of s.
C14_IncludeLettersSelects ==
    pDone =>
        LET str == pConds[1].stringValue
        IN \A w \in IncludeWords :
              w \in Range(pOut.list) <=>
                 IF pConds[1].negated
                 THEN \A c \in Range(str) : CountChar(w, c) = 0
                 ELSE \A c \in Range(str) : CountChar(w, c) >= CountChar(str, c)

\* The number of characters of a word that are a character but for case.
CountCharNoCase(w, c) ==
    Cardinality({i \in 1..Len(w) : UpperChar(w[i]) = UpperChar(c)})

\* C14 for the strings that are not empty: a non-negated condition selects
\* w exactly when, for every distinct character c of s, w holds c, compared
\* without regard to case, at least as many times as s holds the character
\* c; a negated one selects w exactly when w holds no character of s,
\* compared without regard to case.
C14_IncludeLettersNotEmpty ==
    (pDone /\ pConds[1].stringValue # <<>>) =>
        LET str == pConds[1].stringValue
        IN \A w \in IncludeWords :
              w \in Range(pOut.list) <=>
                 IF pConds[1].negated
                 THEN \A c \in Range(str) : CountCharNoCase(w, c) = 0
                 ELSE \A c \in Range(str) :
                         CountCharNoCase(w, c) >= CountChar(str, c)

-----------------------------------------------------------------------------
(* isSetMember over the stem sets of a lexicon *)

\* The six-letter stems a stem file may hold.
SetStems ==
    {<<"R", "E", "T", "I", "N", "A">>, <<"A", "C", "T", "I", "O", "N">>,
     <<"S", "A", "T", "I", "R", "E">>, <<"T", "O", "A", "S", "T", "S">>}

\* The words asked about: of seven and of eight letters, made of the Type
\* Two letters or not, and drawn often or rarely.
SetWords ==
    {<<"O", "T", "A", "R", "I", "N", "E">>, <<"A", "C", "O", "N", "I", "T", "E">>,
     <<"C", "C", "D", "D", "G", "G", "S">>,
     <<"N", "O", "T", "A", "R", "I", "E", "S">>,
     <<"R", "E", "A", "C", "T", "I", "O", "N">>,
     <<"A", "G", "I", "O", "S", "T", "A", "D">>,
     <<"C", "C", "D", "D", "G", "G", "S", "S">>}

TypeSets ==
    <<"SetTypeOneSevens", "SetTypeTwoSevens", "SetTypeThreeSevens",
      "SetTypeOneEights", "SetTypeTwoEights", "SetTypeThreeEights">>

\* The registry after the stems were imported into lexicon L1.
SetLexiconData(stemWords) ==
    LET done == StemLines([words |-> <<>>, alphagrams |-> {},
                           imported |-> 0, length |-> 0], stemWords)
    IN [l \in Lexicons |->
           IF l = "L1"
           THEN [NewLexiconData EXCEPT
                    !.stems = MapPut(@, done.length, done.words),
                    !.stemAlphagrams = MapPut(@, done.length, done.alphagrams)]
           ELSE NoData]

SetInit ==
    /\ \E S \in SUBSET SetStems : lexiconData = SetLexiconData(SortStrings(S))
    /\ dawgTouched = {}
    /\ connections = {}
    /\ op = NoOp
    /\ ret = NoRet
    /\ trace = <<>>
    /\ fault = FALSE
    /\ \E w \in SetWords : pWords = <<w>>
    /\ pConds = <<>>
    /\ pOut = [list |-> <<>>, fault |-> FALSE]
    /\ pDone = FALSE

\* isSetMember asked of the word for each of the six sets; the sets that
\* answer true are kept in the order asked.
ApplySetMember ==
    /\ ~pDone
    /\ pOut' = [list |-> SelectSeq(TypeSets,
                            LAMBDA ss : isSetMember(lexiconData, "L1", pWords[1], ss)),
                fault |-> FALSE]
    /\ pDone' = TRUE
    /\ UNCHANGED <<pWords, pConds>>
    /\ UNCHANGED engineVars

SetNext == ApplySetMember

SpecSet == SetInit /\ [][SetNext]_vars

\* C15: whatever the stems of the lexicon and whatever the word,
\* isSetMember answers true for at most one of the Type One, Type Two and
\* Type Three sevens, and for at most one of the Type One, Type Two and
\* Type Three eights.
C15_TypesAreExclusive ==
    pDone =>
        /\ Cardinality(Range(pOut.list) \cap
              {"SetTypeOneSevens", "SetTypeTwoSevens", "SetTypeThreeSevens"}) <= 1
        /\ Cardinality(Range(pOut.list) \cap
              {"SetTypeOneEights", "SetTypeTwoEights", "SetTypeThreeEights"}) <= 1

\* NOTARIES is made of the Type Two letters and is drawn often enough for
\* Type Three; with RETINA among the stems it is a Type One eight, and that
\* only.
C15_Witness ==
    /\ pDone
    /\ pWords = << <<"N", "O", "T", "A", "R", "I", "E", "S">> >>
    /\ HasStemAlphagrams(lexiconData, "L1", 6)
    /\ <<"A", "E", "I", "N", "R", "T">> \in lexiconData["L1"].stemAlphagrams[6]
    /\ pOut.list = <<"SetTypeOneEights">>
    /\ TypeTwoPass(getAlphagram(pWords[1]), 0, 0)
    /\ getNumCombinations(pWords[1]) >= typeThreeEightCombos

-----------------------------------------------------------------------------
(* search over graphs that spell words in either case *)

\* The words a graph may hold: CAT in three spellings, ACT in two, CATS.
RestrictWords ==
    {<<"C", "A", "T">>, <<"c", "a", "t">>, <<"c", "A", "T">>,
     <<"A", "C", "T">>, <<"a", "c", "t">>, <<"C", "A", "T", "S">>}

\* Optimized specifications: of both phases, of the database phase alone
\* and of the word graph phase alone.
RestrictSpecs ==
    {<<Pattern(<<"?", "?", "?">>), LengthCond(3)>>,
     <<Pattern(<<"c", "?", "?">>), LengthCond(3)>>,
     <<Pattern(<<"?", "?", "?", "?">>), LengthCond(3)>>,
     <<LengthCond(3)>>,
     <<Pattern(<<"?", "?", "?">>)>>}

RestrictInit ==
    /\ \E graph \in SUBSET RestrictWords :
          lexiconData =
             [l \in Lexicons |->
                 IF l = "L1"
                 THEN [NewLexiconData EXCEPT
                          !.graph = graph, !.db = "DB1",
                          !.dbConnectionName = "DB1"]
                 ELSE NoData]
    /\ dawgTouched = {"L1"}
    /\ connections = {}
    /\ op = NoOp
    /\ ret = NoRet
    /\ trace = <<>>
    /\ fault = FALSE
    /\ pWords = <<>>
    /\ pConds = <<>>
    /\ pOut = [list |-> <<>>, fault |-> FALSE]
    /\ pDone = FALSE

RestrictSearch ==
    /\ Idle
    /\ \E optimizedSpec \in RestrictSpecs, allCaps \in BOOLEAN :
          \E o \in search(lexiconData, "L1", optimizedSpec, allCaps) :
             Done([Call("search", "L1") EXCEPT
                      !.conditions = optimizedSpec, !.optimized = optimizedSpec,
                      !.allCaps = allCaps],
                  ListRet(o.ret), o.trace, o.ld, o.fault)
    /\ UNCHANGED <<dawgTouched, connections>>

RestrictNext == RestrictSearch \/ Return

SpecRestrict == RestrictInit /\ [][RestrictNext]_vars

DatabaseRuns == {i \in DOMAIN trace : trace[i].phase = "DatabasePhase"}

\* C20: when a search runs the word graph phase and the database phase,
\* databaseSearch is given the list the word graph phase yielded and every
\* word it returns is a word of that list as that list spells it; when the
\* word graph phase did not run, databaseSearch is given no list.
C20_DatabaseIsRestrictedToGraphResult ==
    SearchReturned =>
        \A i \in DatabaseRuns :
            IF PhaseRan("WordGraphPhase")
            THEN /\ i = 2
                 /\ trace[i].given
                 /\ trace[i].wordList = trace[1].list
                 /\ \A k \in 1..Len(trace[i].list) :
                       trace[i].list[k] \in Range(trace[1].list)
            ELSE ~trace[i].given

\* The word graph phase yielded cat and no CAT, and the database phase,
\* whose row spells CAT, returned cat.
C20_Witness ==
    /\ SearchReturned
    /\ Len(trace) = 2
    /\ trace[2].phase = "DatabasePhase"
    /\ <<"C", "A", "T">> \notin Range(trace[1].list)
    /\ <<"c", "a", "t">> \in Range(trace[2].list)

-----------------------------------------------------------------------------
(* matchesPostConditions and getConditionPhase over conditions of every type *)

\* The conditions: one or more of every type, the Prefix, Suffix and Belong
\* To Group conditions negated and not, the patterns with * at either end,
\* at both and with a character class, and a group name that names no set.
CondPool ==
    {Cond(type, <<"A">>, 1, 2, FALSE, FALSE, FALSE) :
        type \in {"AnagramMatch", "SubanagramMatch", "ConsistOf", "Length",
                  "InWordList", "NumVowels", "IncludeLetters",
                  "ProbabilityOrder", "NumUniqueLetters", "PointValue",
                  "NumAnagrams", "LimitByProbabilityOrder"}}
    \cup {Cond(type, <<"S">>, 0, 0, FALSE, negated, FALSE) :
             type \in {"Prefix", "Suffix"}, negated \in BOOLEAN}
    \cup {Cond("PatternMatch", str, 0, 0, FALSE, FALSE, FALSE) :
             str \in {<<>>, <<"*">>, <<"*", "A", "*">>, <<"*", "A">>,
                      <<"A", "*">>, <<"*", "[", "A", "*">>, <<"A">>}}
    \cup {Cond("BelongToGroup", <<name>>, 0, 0, FALSE, negated, FALSE) :
             name \in SearchSets \cup {"SetOfNoName"}, negated \in BOOLEAN}

CondInit ==
    /\ lexiconData =
          [SetLexiconData(<< <<"R", "E", "T", "I", "N", "A">> >>) EXCEPT
              !["L1"].graph = {<<"C", "A", "T">>, <<"C", "A", "T", "S">>,
                               <<"S", "C", "A", "T">>, <<"A", "T">>}]
    /\ dawgTouched = {}
    /\ connections = {}
    /\ op = NoOp
    /\ ret = NoRet
    /\ trace = <<>>
    /\ fault = FALSE
    /\ \E w \in {<<"C", "A", "T">>, <<"c", "a", "t">>, <<"A", "T">>,
                 <<"O", "T", "A", "R", "I", "N", "E">>} : pWords = <<w>>
    /\ pConds \in {<<c>> : c \in CondPool} \cup {<<c, d>> : c, d \in CondPool}
    /\ pOut = [list |-> <<>>, fault |-> FALSE]
    /\ pDone = FALSE

\* matchesPostConditions asked of the word: the word is kept when it matches.
ApplyMatch ==
    /\ ~pDone
    /\ pOut' = [list |-> IF matchesPostConditions(lexiconData, "L1", pWords[1],
                                                  pConds)
                         THEN pWords ELSE <<>>,
                fault |-> FALSE]
    /\ pDone' = TRUE
    /\ UNCHANGED <<pWords, pConds>>
    /\ UNCHANGED engineVars

\* getConditionPhase asked of every condition of the list.
ApplyPhase ==
    /\ trace = <<>>
    /\ trace' = [i \in 1..Len(pConds) |-> Ran(getConditionPhase(pConds[i]), <<>>)]
    /\ UNCHANGED <<lexiconData, dawgTouched, op, ret, fault, connections>>
    /\ UNCHANGED postVars

CondNext == ApplyMatch \/ ApplyPhase

SpecCond == CondInit /\ [][CondNext]_vars

\* The phases the claims give the types of conditions: those whose place
\* is after the two searches.
StatedPostPhase(c) ==
    \/ c.type \in {"Prefix", "Suffix"}
    \/ /\ c.type = "BelongToGroup"
       /\ stringToSearchSet(c.stringValue)
             \notin {"SetHookWords", "SetFrontHooks", "SetBackHooks"}

\* A word passes a Prefix, Suffix or Belong To Group condition when what
\* the condition asks holds and the condition is not negated, or does not
\* hold and the condition is negated.
PassesAsStated(c, w) ==
    LET asked ==
          CASE c.type = "Prefix" ->
                  isAcceptable(lexiconData, "L1", c.stringValue \o ToUpper(w))
            [] c.type = "Suffix" ->
                  isAcceptable(lexiconData, "L1", ToUpper(w) \o c.stringValue)
            [] OTHER ->
                  isSetMember(lexiconData, "L1", ToUpper(w),
                              stringToSearchSet(c.stringValue))
    IN asked # c.negated

\* C22 as stated: matchesPostConditions accepts a word exactly when, for
\* every Prefix, Suffix and non-hook Belong To Group condition of the list,
\* what the condition asks (prefix followed by the upper-cased word
\* acceptable, upper-cased word followed by suffix acceptable, isSetMember)
\* holds XOR the condition is negated.
C22_AcceptsByXor ==
    pDone =>
        (pOut.list # <<>> <=>
            \A i \in 1..Len(pConds) :
                StatedPostPhase(pConds[i]) => PassesAsStated(pConds[i], pWords[1]))

\* C22 amended: the same, but a Belong To Group condition whose string
\* names no search set is passed by every word, negated or not.
C22_AcceptsByXorOfKnownSets ==
    pDone =>
        (pOut.list # <<>> <=>
            \A i \in 1..Len(pConds) :
                StatedPostPhase(pConds[i]) =>
                    \/ /\ pConds[i].type = "BelongToGroup"
                       /\ stringToSearchSet(pConds[i].stringValue) = "UnknownSearchSet"
                    \/ PassesAsStated(pConds[i], pWords[1]))

\* cat under a negated Prefix S (SCAT is acceptable) with a Suffix S (CATS
\* is acceptable): the suffix is passed, the negated prefix is not, and the
\* word is rejected.
C22_Witness ==
    /\ pDone
    /\ pWords = << <<"c", "a", "t">> >>
    /\ Len(pConds) = 2
    /\ pConds[1].type = "Suffix" /\ ~pConds[1].negated
    /\ pConds[2].type = "Prefix" /\ pConds[2].negated
    /\ pOut.list = <<>>

-----------------------------------------------------------------------------
(* databaseSearch with a Pattern Match condition on its own *)

\* The patterns *s* of the database phase, s of up to MaxQuery characters.
PatternConds ==
    {<<Cond("PatternMatch", <<"*">> \o str \o <<"*">>, 0, 0, FALSE, negated, FALSE)>> :
        str \in SeqsUpTo({"A", "T", "?", "*"}, MaxQuery), negated \in BOOLEAN}

PatternInit ==
    /\ lexiconData = IncludeLexiconData
    /\ dawgTouched = {}
    /\ connections = {}
    /\ op = NoOp
    /\ ret = NoRet
    /\ trace = <<>>
    /\ fault = FALSE
    /\ pWords = <<>>
    /\ pConds \in PatternConds
    /\ pOut = [list |-> <<>>, fault |-> FALSE]
    /\ pDone = FALSE

PatternNext == ApplyInclude

SpecPattern == PatternInit /\ [][PatternNext]_vars

\* The same condition with the negation flag cleared.
NotNegated(condition) == [condition EXCEPT !.negated = FALSE]

\* C23: a negated Pattern Match condition of the database phase selects
\* exactly the words of the database that the same condition, not negated,
\* rejects.
C23_NegatedPatternSelectsTheRejected ==
    (pDone /\ pConds[1].type = "PatternMatch" /\ pConds[1].negated) =>
        /\ getConditionPhase(pConds[1]) = "DatabasePhase"
        /\ LET plain == databaseSearch(lexiconData, "L1", <<NotNegated(pConds[1])>>, FALSE, <<>>)
           IN \A w \in IncludeWords :
                 w \in Range(pOut.list) <=> w \notin Range(plain)

\* The phase the mapping of the types gives a condition.
StatedPhase(c) ==
    LET str == c.stringValue
    IN IF c.type \in {"AnagramMatch", "SubanagramMatch", "ConsistOf"}
       THEN "WordGraphPhase"
       ELSE IF c.type \in {"Length", "InWordList", "NumVowels", "IncludeLetters",
                           "ProbabilityOrder", "NumUniqueLetters", "PointValue",
                           "NumAnagrams"}
       THEN "DatabasePhase"
       ELSE IF c.type \in {"Prefix", "Suffix", "LimitByProbabilityOrder"}
       THEN "PostConditionPhase"
       ELSE IF c.type = "BelongToGroup"
       THEN IF str \in {<<"SetHookWords">>, <<"SetFrontHooks">>, <<"SetBackHooks">>}
            THEN "DatabasePhase" ELSE "PostConditionPhase"
       ELSE IF /\ c.type = "PatternMatch"
               /\ \E i \in 1..Len(str) : i = 1 /\ str[i] = "*"
               /\ \E i \in 1..Len(str) : i = Len(str) /\ str[i] = "*"
               /\ \A i \in 1..Len(str) : str[i] # "["
       THEN "DatabasePhase"
       ELSE "WordGraphPhase"

\* C24: getConditionPhase gives every condition the one phase, of the three,
\* that the mapping of the types gives it.
C24_PhaseIsTheStatedOne ==
    \A i \in 1..Len(trace) :
        /\ trace[i].phase = StatedPhase(pConds[i])
        /\ trace[i].phase \in {"WordGraphPhase", "DatabasePhase", "PostConditionPhase"}

C24_Witness ==
    /\ Len(trace) = 2
    /\ pConds[1].type = "PatternMatch" /\ pConds[1].stringValue = <<"*", "[", "A", "*">>
    /\ trace[1].phase = "WordGraphPhase"
    /\ pConds[2].type = "BelongToGroup" /\ pConds[2].stringValue = <<"SetBackHooks">>
    /\ trace[2].phase = "DatabasePhase"

-----------------------------------------------------------------------------
(* isSetMember over stems of six and of seven letters *)

\* The seven-letter stems a second stem file may hold.
SevenStems ==
    {<<"O", "T", "A", "R", "I", "N", "E">>, <<"A", "C", "O", "N", "I", "T", "E">>}

\* The words asked about: a stem with letters added before, between and
\* after its letters, words one letter away from that, and words of other
\* lengths.
StemWords ==
    SetWords \cup
    {<<"T", "O", "A", "S", "T", "S", "T", "T">>,
     <<"A", "A", "R", "E", "T", "I", "N", "A">>,
     <<"R", "E", "T", "I", "N", "O", "S", "S">>,
     <<"R", "E", "T", "I", "N", "A">>,
     <<"S", "A", "T", "I", "R", "E", "S">>,
     <<"R", "E", "T", "I", "N", "A", "S", "S", "S">>}

StemSets ==
    <<"SetTypeOneSevens", "SetTypeOneEights", "SetEightsFromSevenLetterStems">>

\* The registry after a file of six-letter stems, then a file of
\* seven-letter stems, were imported into lexicon L1.
StemLexiconData(six, seven) ==
    LET done == StemLines([words |-> <<>>, alphagrams |-> {},
                           imported |-> 0, length |-> 0], seven)
    IN [SetLexiconData(six) EXCEPT
           !["L1"].stems = MapPut(@, done.length, done.words),
           !["L1"].stemAlphagrams = MapPut(@, done.length, done.alphagrams)]

StemInit ==
    /\ \E S \in SUBSET SetStems, T \in SUBSET SevenStems :
          lexiconData = StemLexiconData(SortStrings(S), SortStrings(T))
    /\ dawgTouched = {}
    /\ connections = {}
    /\ op = NoOp
    /\ ret = NoRet
    /\ trace = <<>>
    /\ fault = FALSE
    /\ \E w \in StemWords : pWords = <<w>>
    /\ pConds = <<>>
    /\ pOut = [list |-> <<>>, fault |-> FALSE]
    /\ pDone = FALSE

\* isSetMember asked of the word for each of the three sets made from
\* stems; the sets that answer true are kept in the order asked.
ApplyStemMember ==
    /\ ~pDone
    /\ pOut' = [list |-> SelectSeq(StemSets,
                            LAMBDA ss : isSetMember(lexiconData, "L1", pWords[1], ss)),
                fault |-> FALSE]
    /\ pDone' = TRUE
    /\ UNCHANGED <<pWords, pConds>>
    /\ UNCHANGED engineVars

StemNext == ApplyStemMember

SpecStem == StemInit /\ [][StemNext]_vars

\* The strings left when one character of a string is deleted.
DeleteOne(str) ==
    {[k \in 1..(Len(str) - 1) |-> IF k < i THEN str[k] ELSE str[k + 1]] :
        i \in 1..Len(str)}

\* The stem alphagrams of a length, none when no stem of that length was
\* imported.
StemAlphagramsOfLength(length) ==
    IF length \in DOMAIN lexiconData["L1"].stemAlphagrams
    THEN lexiconData["L1"].stemAlphagrams[length]
    ELSE {}

\* C25: isSetMember answers true for the Type One sevens exactly when the
\* word has 7 letters and its alphagram less some one letter is a stem
\* alphagram of length 6, for the Type One eights exactly when the word has
\* 8 letters and its alphagram less some two letters is a stem alphagram of
\* length 6, and for the eights from seven-letter stems exactly when the
\* word has 8 letters and its alphagram less some one letter is a stem
\* alphagram of length 7.
C25_StemSetsAreDeletions ==
    pDone =>
        LET word == pWords[1]
            agram == getAlphagram(word)
            lessOne == DeleteOne(agram)
            lessTwo == UNION {DeleteOne(a) : a \in lessOne}
        IN /\ "SetTypeOneSevens" \in Range(pOut.list) <=>
                 (Len(word) = 7 /\ lessOne \cap StemAlphagramsOfLength(6) # {})
           /\ "SetTypeOneEights" \in Range(pOut.list) <=>
                 (Len(word) = 8 /\ lessTwo \cap StemAlphagramsOfLength(6) # {})
           /\ "SetEightsFromSevenLetterStems" \in Range(pOut.list) <=>
                 (Len(word) = 8 /\ lessOne \cap StemAlphagramsOfLength(7) # {})

\* AARETINA holds RETINA and two more letters, both before the last five
\* letters of the stem's alphagram, and is no seven-letter stem and a letter.
C25_Witness ==
    /\ pDone
    /\ pWords = << <<"A", "A", "R", "E", "T", "I", "N", "A">> >>
    /\ StemAlphagramsOfLength(6) = {<<"A", "E", "I", "N", "R", "T">>}
    /\ StemAlphagramsOfLength(7) # {}
    /\ pOut.list = <<"SetTypeOneEights">>

-----------------------------------------------------------------------------
(* What the cache holds, and the lookups that find nothing *)

\* Every entry of every cache is valid, has its key for word, and has the
\* columns of one row of that word in one of the databases.
CacheEntriesAreRows ==
    \A l \in Lexicons :
        \A w \in DOMAIN lexiconData[l].wordCache :
            LET info == lexiconData[l].wordCache[w]
            IN /\ isValid(info)
               /\ info.word = w
               /\ \E file \in DbFileNames :
                     \E row \in RowsOfWord(file, w) : info = InfoOfRow(row, w)

\* The lexicon of the last call has no open database, or its database has
\* no row of the word of the call; taken in the state before the call.
NothingToFind ==
    \/ ~Present(lexiconData, op'.lexicon)
    \/ lexiconData[op'.lexicon].db = "none"
    \/ RowsOfWord(lexiconData[op'.lexicon].db, op'.word) = {}

\* C26 as stated: every cache entry is a valid WordInfo with the columns of
\* one row and its key for word, and a getWordInfo that finds no row, or no
\* open database, returns the default WordInfo and leaves the caches as
\* they were.
C26_CacheHoldsRowsAndNothingFoundIsDefault ==
    /\ []CacheEntriesAreRows
    /\ [][(op'.name = "getWordInfo" /\ NothingToFind) =>
             (ret'.info = DefaultWordInfo /\ lexiconData' = lexiconData)]_vars

\* C26, the cache alone: every cache entry is a valid WordInfo with the
\* columns of one row and its key for word.
C26_CacheEntriesAreRows == CacheEntriesAreRows

\* C26, the lookups of a word that is not in the cache: a getWordInfo that
\* finds no row, or no open database, returns the default WordInfo and
\* leaves the caches as they were.
C26_MissWithNothingFoundIsDefault ==
    [][(/\ op'.name = "getWordInfo"
        /\ NothingToFind
        /\ op'.word \notin DOMAIN lexiconData[op'.lexicon].wordCache) =>
          (ret'.info = DefaultWordInfo /\ lexiconData' = lexiconData)]_vars

-----------------------------------------------------------------------------
(* The lexicons are kept apart *)

\* A registered lexicon made ready by calls: the stems of S1 imported or
\* not, then a database connected or not, then CAT looked up or not.
Loaded(ld, lexicon, withStems, dbFile, lookedUp) ==
    LET stemmed == IF withStems THEN importStems(ld, lexicon, "S1").ld ELSE ld
        connected == IF dbFile = "none" THEN stemmed
                     ELSE connectToDatabase(stemmed, lexicon, dbFile).ld
    IN IF lookedUp THEN getWordInfo(connected, lexicon, <<"C", "A", "T">>).ld
       ELSE connected

\* The ways a lexicon is made ready: the text file, the stems, the
\* database and the lookup.
Loadings == {"T1", "T2"} \X BOOLEAN \X {"none", "DB1", "DB2"} \X BOOLEAN

\* The registry after a text file was imported, with its definitions, into
\* each of two lexicons and each was made ready.
TwoLexiconData(one, two) ==
    LET first == importTextFile([l \in Lexicons |-> NoData], "L1", one[1], TRUE).ld
        both == importTextFile(first, "L2", two[1], TRUE).ld
    IN Loaded(Loaded(both, "L1", one[2], one[3], one[4]),
              "L2", two[2], two[3], two[4])

TwoInit ==
    /\ \E one \in Loadings, two \in Loadings :
          lexiconData = TwoLexiconData(one, two)
    /\ dawgTouched = {}
    /\ connections = {}
    /\ op = NoOp
    /\ ret = NoRet
    /\ trace = <<>>
    /\ fault = FALSE
    /\ pWords = <<>>
    /\ pConds = <<>>
    /\ pOut = [list |-> <<>>, fault |-> FALSE]
    /\ pDone = FALSE

\* One call of any operation on the registry of two lexicons.
TwoNext ==
    \/ ImportTextFile
    \/ ImportDawgFile
    \/ ImportStems
    \/ ConnectToDatabase
    \/ DisconnectFromDatabase
    \/ ClearCache
    \/ Search
    \/ IsAcceptable
    \/ LexiconIsLoaded
    \/ DatabaseIsConnected
    \/ GetWordInfo
    \/ GetNumWords
    \/ GetDefinition
    \/ GetAttribute
    \/ GetFrontHookLetters
    \/ GetBackHookLetters

SpecTwo == TwoInit /\ [][TwoNext]_vars

\* C27: a call for a lexicon leaves the graph, the anagram counts, the
\* stems, the definitions, the database handle and the cache of every other
\* registered lexicon as they were.
C27_OtherLexiconsAreUntouched ==
    [][op'.name # "none" =>
          \A b \in Lexicons \ {op'.lexicon} :
              Present(lexiconData, b) => lexiconData'[b] = lexiconData[b]]_vars

\* A search of L1 has just filled the cache of L1 while L2, registered by
\* an import of stems, is connected to a database and has a word cached.
C27_Witness ==
    /\ op.name = "search" /\ op.lexicon = "L1"
    /\ ~fault
    /\ ret.list # <<>>
    /\ DOMAIN lexiconData["L1"].wordCache # {}
    /\ Present(lexiconData, "L2")
    /\ lexiconData["L2"].db # "none"
    /\ DOMAIN lexiconData["L2"].wordCache # {}
    /\ DOMAIN lexiconData["L2"].stems # {}

-----------------------------------------------------------------------------
(* The database connections *)

\* C29: after any calls of connectToDatabase and disconnectFromDatabase,
\* every connection the engine has opened or tried to open is the current
\* handle of its lexicon or has been released: no connection is left that
\* no LexiconData refers to, so no lexicon has two open connections.
\* (Stated for the calls that end without a fault.)
C29_NoConnectionIsLeft == ~fault => connections = {}

-----------------------------------------------------------------------------
(* Searches of a lexicon that has no database *)

\* The lists a search returns when it runs the word graph phase, then the
\* post condition phase if the specification has conditions of it, and no
\* database phase.
GraphAndPostResults(ld, lexicon, optimizedSpec, allCaps) ==
    LET graphList == wordGraphSearch(ld, lexicon, optimizedSpec)
        caps(list) == IF allCaps THEN [i \in 1..Len(list) |-> ToUpper(list[i])]
                      ELSE list
    IN IF graphList = <<>> THEN {<<>>}
       ELSE IF PhaseCount(optimizedSpec, "PostConditionPhase") > 0
       THEN {caps(o.list) :
               o \in applyPostConditions(ld, lexicon, optimizedSpec, graphList)}
       ELSE {caps(graphList)}

\* A search of a loaded lexicon that has no database: what the claim says
\* of it, with the conditions that count for the second half given.
SearchWithoutDatabase(conditions) ==
    (/\ op'.name = "search"
     /\ ~fault'
     /\ Present(lexiconData, op'.lexicon)
     /\ lexiconData[op'.lexicon].db = "none")
        => /\ \A i \in DOMAIN trace' :
                 trace'[i].phase = "DatabasePhase"
                    => /\ trace'[i].list = <<>>
                       /\ ret'.list = <<>>
                       /\ lexiconData' = lexiconData
           /\ PhaseCount(conditions, "DatabasePhase") = 0
                 => /\ \A i \in DOMAIN trace' : trace'[i].phase # "DatabasePhase"
                    /\ ret'.list \in GraphAndPostResults(lexiconData, op'.lexicon,
                                                        op'.optimized, op'.allCaps)

\* C30 as stated: on a loaded lexicon with no database, databaseSearch
\* returns the empty list, every search that runs the database phase
\* returns the empty list and leaves the cache as it was, and a search
\* whose specification has no condition of the database phase returns the
\* result of the word graph phase and the post condition phase.
C30_WithoutDatabaseGraphSearchesAnswer ==
    [][SearchWithoutDatabase(op'.conditions)]_vars

\* C30 for the specification as optimize left it: the same, for a search
\* whose optimized specification has no condition of the database phase.
C30_WithoutDatabaseOptimizedGraphSearchesAnswer ==
    [][SearchWithoutDatabase(op'.optimized)]_vars

====
